---- MODULE Spec2Model ----
(***************************************************************************)
(* Prompt compiler (compiler/compilePrompt.ts, assembleFrames.ts,          *)
(* enforceConstraints.ts) and its governor (compiler/stateMachine.ts).     *)
(*                                                                         *)
(* Strings that the code only stores, compares and passes on (module ids,  *)
(* reference handles, variation ids, error messages) are TLA+ strings.     *)
(* Strings that the code takes apart (prompt_text, constraints, the        *)
(* compiled prompt) are sequences of tokens: a token is a newline, a       *)
(* space, or a phrase without leading or trailing whitespace, so that      *)
(* trim(), the newline-run regex, join() and includes() act on tokens      *)
(* exactly as the code's versions act on characters.                       *)
(***************************************************************************)
EXTENDS Integers, Sequences, FiniteSets, TLC

VARIABLES state, thrown, cin, cout, cprev, dataDir, library, ui

vars == <<state, thrown, cin, cout, cprev, dataDir, library, ui>>

-----------------------------------------------------------------------------
(* Bounds of the model *)

\* number of distinct reference handles a caller supplies (the first
\* MaxRefValues entries of RefHandles)
MaxRefValues == 1
\* number of distinct variation ids an event may carry
MaxVariations == 1
\* longest selected_modules list handed directly to compilePrompt
MaxSelected == 2

-----------------------------------------------------------------------------
(* Values *)

\* JavaScript null (a reference slot that is not supplied)
Null == "<null>"
\* JavaScript undefined (a property read that finds nothing)
Undefined == "<undefined>"

NL == "\n"
SP == " "
Whitespace == {NL, SP}

RefSlot == {"character", "product", "environment"}

\* handles a caller may put in a reference slot (string | null): the empty
\* string is a string too, and is falsy like null
RefHandles == <<"uploaded", "", "char_ref">>

RefValues == {Null} \cup {RefHandles[i] : i \in 1..MaxRefValues}

VariationIds == {"var" \o ToString(i) : i \in 1..MaxVariations}

\* JavaScript truthiness of a string | null | undefined
Truthy(v) == v \notin {Null, Undefined, ""}

SelectedKeys ==
  <<"facial_pose", "anatomy_pose", "apparel_textile", "product", "cinematography">>

SelectedKeySet == {SelectedKeys[i] : i \in 1..Len(SelectedKeys)}

-----------------------------------------------------------------------------
(* Sequence and string helpers *)

Range(s) == {s[i] : i \in 1..Len(s)}

RECURSIVE Filter(_, _)
\* s.filter(x => x \in keep)
Filter(s, keep) ==
  IF s = <<>> THEN <<>>
  ELSE IF Head(s) \in keep THEN <<Head(s)>> \o Filter(Tail(s), keep)
       ELSE Filter(Tail(s), keep)

RECURSIVE Concat(_)
\* the concatenation of a sequence of sequences
Concat(ss) == IF ss = <<>> THEN <<>> ELSE Head(ss) \o Concat(Tail(ss))

RECURSIVE Join(_, _)
\* parts.join(sep), on token sequences
Join(parts, sep) ==
  IF parts = <<>> THEN <<>>
  ELSE IF Len(parts) = 1 THEN parts[1]
  ELSE parts[1] \o sep \o Join(Tail(parts), sep)

RECURSIVE TrimStart(_)
TrimStart(t) ==
  IF t # <<>> /\ Head(t) \in Whitespace THEN TrimStart(Tail(t)) ELSE t

RECURSIVE TrimEnd(_)
TrimEnd(t) ==
  IF t # <<>> /\ t[Len(t)] \in Whitespace THEN TrimEnd(SubSeq(t, 1, Len(t) - 1)) ELSE t

\* String.prototype.trim
Trim(t) == TrimEnd(TrimStart(t))

-----------------------------------------------------------------------------
(* The module library: the loaded shape of data/*.json (PromptLibrary).    *)
(* The records below are a library the loader accepts; their texts use the *)
(* marker phrases the code looks for.                                      *)

CHARACTER == "CHARACTER REFERENCE IMAGE"
PRODUCT == "PRODUCT REFERENCE IMAGE"
ENVIRONMENT == "ENVIRONMENT REFERENCE IMAGE"

\* tokens t with t.includes("CHARACTER REFERENCE IMAGE") etc. (case-sensitive)
HasCharacterMarker == {CHARACTER}
HasProductMarker == {PRODUCT}
HasEnvironmentMarker == {ENVIRONMENT}
\* tokens t with t.toUpperCase().includes("HANDS ONLY")
HasHandsOnlyUpper == {"HANDS ONLY", "hands only", "Hands Only"}
\* tokens t with t.toLowerCase().includes("facial close-up")
HasFacialCloseUpLower == {"Extreme facial close-ups.", "facial close-up", "Facial Close-Up"}

\* constraint strings
Grid == <<"Exact 3x2 grid, exactly 6 frames">>
GridTrailingSpace == <<"Exact 3x2 grid, exactly 6 frames", SP>>
Dividers == <<"Thin 2px grid dividers">>
Blank == <<SP>>
\* "café lighting" with U+00E9 (composed) and with U+0065 U+0301 (decomposed):
\* two different strings that are canonically equivalent
CafeComposed == <<"cafe\\u00e9 lighting">>
CafeDecomposed == <<"cafee\\u0301 lighting">>

Modules == <<
  [id |-> "global_rules_core", category |-> "global_rules", hasText |-> TRUE,
   prompt_text |-> <<"Photorealistic output only.">>,
   constraints |-> <<>>],
  [id |-> "facial_pose_primary_moods", category |-> "facial_pose", hasText |-> TRUE,
   prompt_text |-> <<"Use the uploaded", SP, CHARACTER, SP, "as the exact identity.">>,
   constraints |-> <<Grid, Dividers>>],
  [id |-> "facial_pose_bizarre_expressions", category |-> "facial_pose", hasText |-> TRUE,
   prompt_text |-> <<"Use the uploaded", SP, CHARACTER, SP, "Extreme facial close-ups.", NL>>,
   constraints |-> <<Grid, Blank>>],
  [id |-> "anatomy_pose_fashion_stances", category |-> "anatomy_pose", hasText |-> TRUE,
   prompt_text |-> <<"Use the uploaded", SP, CHARACTER, SP, "Full-body stances.">>,
   constraints |-> <<GridTrailingSpace, CafeDecomposed>>],
  [id |-> "anatomy_pose_hand_gestures", category |-> "anatomy_pose", hasText |-> TRUE,
   prompt_text |-> <<"HANDS ONLY", SP, "Six hand gestures.">>,
   constraints |-> <<Grid>>],
  [id |-> "product_macro", category |-> "product", hasText |-> TRUE,
   prompt_text |-> <<"Use the uploaded", SP, PRODUCT, SP, "Product hero shots.">>,
   constraints |-> <<CafeComposed, Dividers>>],
  [id |-> "cinematography_editorial_set_projection", category |-> "cinematography",
   hasText |-> TRUE,
   prompt_text |-> <<"Use the uploaded", SP, ENVIRONMENT, SP, "Projected set.">>,
   constraints |-> <<Dividers>>]
>>

\* the records of the data directory with the global_rules records removed
ModulesWithoutGlobals ==
  Filter(Modules, {m \in Range(Modules) : m.category # "global_rules"})

\* a record whose prompt_text mentions all three reference images
Campaign ==
  [id |-> "apparel_textile_campaign", category |-> "apparel_textile", hasText |-> TRUE,
   prompt_text |-> <<"Use the uploaded", SP, CHARACTER, SP, "wearing the", SP, PRODUCT,
                     SP, "inside the", SP, ENVIRONMENT>>,
   constraints |-> <<Dividers>>]

\* the records of the data directory with Campaign added
ModulesWithCampaign == Append(Modules, Campaign)

\* library.byId is a plain object: a lookup of a key it does not own finds what
\* Object.prototype has under that key (an object or function with none of a
\* module's properties), or undefined
InheritedKeys == {"constructor"}

InheritedObject ==
  [id |-> Undefined, category |-> Undefined, hasText |-> FALSE,
   prompt_text |-> <<>>, constraints |-> <<>>]

\* the library of a process that has not built one
NoLibrary == [ok |-> FALSE, error |-> "not loaded", byId |-> <<>>, globals |-> <<>>]

\* the error a library constructor throws
LoadFailure(message) == [ok |-> FALSE, error |-> message, byId |-> <<>>, globals |-> <<>>]

ModuleMissingId == "Module missing id"
DuplicateModuleIdInLibrary(id) == "Duplicate module id in library: '" \o id \o "'"
DuplicateModuleId(id) == "Duplicate module id: '" \o id \o "'"

\* all.filter(m => m.category === "global_rules")
GlobalsOf(all) == Filter(all, {m \in Range(all) : m.category = "global_rules"})

\* byId[m.id] = m on the plain object map
Put(map, m) ==
  [id \in DOMAIN map \cup {m.id} |-> IF id = m.id THEN m ELSE map[id]]

RECURSIVE FillFromDataDir(_, _, _)
\* the loop of loadLibraryFromDataDir over all[i..], map being byId so far
FillFromDataDir(all, i, map) ==
  IF i > Len(all)
    THEN [ok |-> TRUE, error |-> "", byId |-> map, globals |-> GlobalsOf(all)]
  ELSE IF ~Truthy(all[i].id) THEN LoadFailure(ModuleMissingId)
  ELSE IF all[i].id \in DOMAIN map \cup InheritedKeys
    THEN LoadFailure(DuplicateModuleIdInLibrary(all[i].id))
  ELSE FillFromDataDir(all, i + 1, Put(map, all[i]))

\* loadLibraryFromDataDir, all being the records of the directory's files in
\* file-name order
loadLibraryFromDataDir(all) == FillFromDataDir(all, 1, <<>>)

RECURSIVE FillBuilt(_, _, _)
\* the loop of buildLibrary over all[i..], map being byId so far
FillBuilt(all, i, map) ==
  IF i > Len(all)
    THEN [ok |-> TRUE, error |-> "", byId |-> map, globals |-> GlobalsOf(all)]
  ELSE IF all[i].id \in DOMAIN map \cup InheritedKeys
    THEN LoadFailure(DuplicateModuleId(all[i].id))
  ELSE FillBuilt(all, i + 1, Put(map, all[i]))

\* buildLibrary of the UI, all being the records of the imported data files
buildLibrary(all) == FillBuilt(all, 1, <<>>)

\* library.byId of the library in use
byId == library.byId

\* the ids of the library's modules
LibIds == DOMAIN byId

\* ids that are not modules of the library
ForeignIds == {"ghost"} \cup InheritedKeys

ModuleIds == LibIds \cup ForeignIds

\* whether library.byId[id] is truthy
HasById(id) == id \in LibIds \cup InheritedKeys

\* library.byId[id], for an id with HasById(id)
ById(id) == IF id \in LibIds THEN byId[id] ELSE InheritedObject

\* library.globals: the records of category global_rules, in load order
Globals == library.globals

-----------------------------------------------------------------------------
(* stateMachine.ts *)

initialState ==
  [refs |-> [character |-> Null, product |-> Null, environment |-> Null],
   selected |-> [k \in SelectedKeySet |-> <<>>],
   variations |-> <<>>,
   compiled |-> [present |-> FALSE],
   errors |-> <<>>]

\* t.includes(phrase), for the token set that holds the phrase
Includes(t, tokensWithPhrase) == \E i \in 1..Len(t) : t[i] \in tokensWithPhrase

\* a faulty deriveMeta that C24 must tell from the real one: the test for an
\* environment-only text comes before the test for HANDS ONLY
deriveMetaEnvironmentFirst(module) ==
  LET t == IF module.hasText THEN module.prompt_text ELSE <<>>
      requires == [character |-> Includes(t, HasCharacterMarker),
                   product |-> Includes(t, HasProductMarker),
                   environment |-> Includes(t, HasEnvironmentMarker)]
      scope ==
        IF requires.environment /\ ~requires.character /\ ~requires.product
          THEN "environment_only"
        ELSE IF Includes(t, HasHandsOnlyUpper) THEN "hands_only"
        ELSE IF module.category = "facial_pose" THEN "face_only"
        ELSE IF Includes(t, HasFacialCloseUpLower) THEN "face_only"
        ELSE "full_body"
  IN [requires |-> requires, scope |-> scope, category |-> module.category]

deriveMeta(module) ==
  LET t == IF module.hasText THEN module.prompt_text ELSE <<>>
      requires == [character |-> Includes(t, HasCharacterMarker),
                   product |-> Includes(t, HasProductMarker),
                   environment |-> Includes(t, HasEnvironmentMarker)]
      scope ==
        IF Includes(t, HasHandsOnlyUpper) THEN "hands_only"
        ELSE IF requires.environment /\ ~requires.character /\ ~requires.product
          THEN "environment_only"
        ELSE IF module.category = "facial_pose" THEN "face_only"
        ELSE IF Includes(t, HasFacialCloseUpLower) THEN "face_only"
        ELSE "full_body"
  IN [requires |-> requires, scope |-> scope, category |-> module.category]

flattenSelected(selected) ==
  selected.facial_pose \o selected.anatomy_pose \o selected.apparel_textile
    \o selected.product \o selected.cinematography

\* resolveModules throws when an id of the selection is not a key of byId
resolveModulesThrows(st) ==
  \E id \in Range(flattenSelected(st.selected)) : ~HasById(id)

resolveModules(st) ==
  LET ids == flattenSelected(st.selected)
  IN [i \in 1..Len(ids) |-> ById(ids[i])]

anyScope(metas, scope) == \E i \in 1..Len(metas) : metas[i].scope = scope

MissingCharacter == "Missing character reference."
MissingProduct == "Missing product reference."
MissingEnvironment == "Missing environment reference."
HandsOnlyCombined == "Hands-only module cannot be combined with other modules in v1."
EnvironmentOnlyCombined ==
  "Environment-only module cannot be combined with other modules in v1."

\* modules.map(deriveMeta)
DeriveMetas(modules) == [i \in 1..Len(modules) |-> deriveMeta(modules[i])]

\* a faulty validateState that C15 must tell from the real one: it does not
\* check the product reference
StateErrorsWithoutProduct(st, metas) ==
  LET needsCharacter == \E i \in 1..Len(metas) : metas[i].requires.character
      needsEnvironment == \E i \in 1..Len(metas) : metas[i].requires.environment
      selectedCount == Len(metas)
  IN (IF needsCharacter /\ ~Truthy(st.refs.character) THEN <<MissingCharacter>> ELSE <<>>)
     \o (IF needsEnvironment /\ ~Truthy(st.refs.environment)
           THEN <<MissingEnvironment>> ELSE <<>>)
     \o (IF anyScope(metas, "hands_only") /\ selectedCount > 1
           THEN <<HandsOnlyCombined>> ELSE <<>>)
     \o (IF anyScope(metas, "environment_only") /\ selectedCount > 1
           THEN <<EnvironmentOnlyCombined>> ELSE <<>>)

\* a faulty validateState that C21 must tell from the real one: it pushes the
\* exclusivity errors before the reference errors
StateErrorsExclusivityFirst(st, metas) ==
  LET needsCharacter == \E i \in 1..Len(metas) : metas[i].requires.character
      needsProduct == \E i \in 1..Len(metas) : metas[i].requires.product
      needsEnvironment == \E i \in 1..Len(metas) : metas[i].requires.environment
      selectedCount == Len(metas)
  IN (IF anyScope(metas, "hands_only") /\ selectedCount > 1
        THEN <<HandsOnlyCombined>> ELSE <<>>)
     \o (IF anyScope(metas, "environment_only") /\ selectedCount > 1
           THEN <<EnvironmentOnlyCombined>> ELSE <<>>)
     \o (IF needsCharacter /\ ~Truthy(st.refs.character) THEN <<MissingCharacter>> ELSE <<>>)
     \o (IF needsProduct /\ ~Truthy(st.refs.product) THEN <<MissingProduct>> ELSE <<>>)
     \o (IF needsEnvironment /\ ~Truthy(st.refs.environment)
           THEN <<MissingEnvironment>> ELSE <<>>)

\* the errors validateState collects, given the metas of the resolved selection
StateErrors(st, metas) ==
  LET needsCharacter == \E i \in 1..Len(metas) : metas[i].requires.character
      needsProduct == \E i \in 1..Len(metas) : metas[i].requires.product
      needsEnvironment == \E i \in 1..Len(metas) : metas[i].requires.environment
      selectedCount == Len(metas)
  IN (IF needsCharacter /\ ~Truthy(st.refs.character) THEN <<MissingCharacter>> ELSE <<>>)
     \o (IF needsProduct /\ ~Truthy(st.refs.product) THEN <<MissingProduct>> ELSE <<>>)
     \o (IF needsEnvironment /\ ~Truthy(st.refs.environment)
           THEN <<MissingEnvironment>> ELSE <<>>)
     \o (IF anyScope(metas, "hands_only") /\ selectedCount > 1
           THEN <<HandsOnlyCombined>> ELSE <<>>)
     \o (IF anyScope(metas, "environment_only") /\ selectedCount > 1
           THEN <<EnvironmentOnlyCombined>> ELSE <<>>)

\* validateState, for a state whose selection resolves
validateState(st) == StateErrors(st, DeriveMetas(resolveModules(st)))

HandsOnlyAlone == "Hands-only module must be used alone in v1."
HandsOnlySelected == "Cannot add modules when a hands-only module is selected in v1."
EnvironmentOnlyAlone == "Environment-only module must be used alone in v1."
EnvironmentOnlySelected ==
  "Cannot add modules when an Environment-only module is selected in v1."
NoScopeError == ""

\* a faulty ScopeViolation that C9 must tell from the real one: the two
\* hands-only checks are missing
ScopeViolationWithoutHandsOnly(nextMeta, existingMetas) ==
  IF Len(existingMetas) = 0 THEN NoScopeError
  ELSE IF nextMeta.scope = "environment_only" THEN EnvironmentOnlyAlone
  ELSE IF anyScope(existingMetas, "environment_only") THEN EnvironmentOnlySelected
  ELSE NoScopeError

\* a faulty ScopeViolation that C10 must tell from the real one: the two
\* environment-only checks are missing
ScopeViolationWithoutEnvironmentOnly(nextMeta, existingMetas) ==
  IF Len(existingMetas) = 0 THEN NoScopeError
  ELSE IF nextMeta.scope = "hands_only" THEN HandsOnlyAlone
  ELSE IF anyScope(existingMetas, "hands_only") THEN HandsOnlySelected
  ELSE NoScopeError

\* a faulty ScopeViolation that C32 must tell from the real one: the
\* pre-check lets every module in
ScopeViolationNever(nextMeta, existingMetas) == NoScopeError

\* the checks of violatesScopeOnSelect, in order, given the meta of the
\* incoming module and the metas of the selection: the message, or
\* NoScopeError for null
ScopeViolation(nextMeta, existingMetas) ==
  IF Len(existingMetas) = 0 THEN NoScopeError
  ELSE IF nextMeta.scope = "hands_only" THEN HandsOnlyAlone
  ELSE IF anyScope(existingMetas, "hands_only") THEN HandsOnlySelected
  ELSE IF nextMeta.scope = "environment_only" THEN EnvironmentOnlyAlone
  ELSE IF anyScope(existingMetas, "environment_only") THEN EnvironmentOnlySelected
  ELSE NoScopeError

violatesScopeOnSelect(nextModule, st) ==
  ScopeViolation(deriveMeta(nextModule), DeriveMetas(resolveModules(st)))

\* a faulty findCategoryKeyForModule that C36 must tell from the real one: a
\* global_rules module gets the key facial_pose
findCategoryKeyForAnyModule(mod) ==
  IF mod.category \in SelectedKeySet THEN mod.category
  ELSE IF mod.category = "global_rules" THEN "facial_pose"
  ELSE Null

\* findCategoryKeyForModule: the key, or Null
findCategoryKeyForModule(mod) ==
  IF mod.category \in SelectedKeySet THEN mod.category ELSE Null

\* a faulty makeCompileInput that C35 must tell from the real one: the
\* variations are not handed to the compiler
makeCompileInputWithoutVariations(st) ==
  [character_ref |-> st.refs.character,
   product_ref |-> st.refs.product,
   environment_ref |-> st.refs.environment,
   selected_modules |-> flattenSelected(st.selected),
   variation_ids |-> <<>>]

makeCompileInput(st) ==
  [character_ref |-> st.refs.character,
   product_ref |-> st.refs.product,
   environment_ref |-> st.refs.environment,
   selected_modules |-> flattenSelected(st.selected),
   variation_ids |-> st.variations]


-----------------------------------------------------------------------------
(* String comparison and sorting *)

\* a.localeCompare(b) follows the collation of the host's locale, not the code
\* units: each entry is one collation class, in ascending order, and strings
\* that are canonically equivalent are in the same class (compare as 0)
CollationOrder == <<
  {SP},
  {"anatomy_pose_fashion_stances"},
  {"anatomy_pose_hand_gestures"},
  {"apparel_textile_campaign"},
  {"cafe\\u00e9 lighting", "cafee\\u0301 lighting"},
  {"cinematography_editorial_set_projection"},
  {"constructor"},
  {"Exact 3x2 grid, exactly 6 frames"},
  {"facial_pose_bizarre_expressions"},
  {"facial_pose_primary_moods"},
  {"ghost"},
  {"global_rules_core"},
  {"product_macro"},
  {"Thin 2px grid dividers"}
>>

CollationKey(x) == CHOOSE i \in 1..Len(CollationOrder) : x \in CollationOrder[i]

RECURSIVE localeCompare(_, _)
\* a.localeCompare(b) on token sequences: negative, 0 or positive
localeCompare(a, b) ==
  IF a = <<>> THEN (IF b = <<>> THEN 0 ELSE -1)
  ELSE IF b = <<>> THEN 1
  ELSE IF CollationKey(Head(a)) # CollationKey(Head(b))
    THEN CollationKey(Head(a)) - CollationKey(Head(b))
  ELSE localeCompare(Tail(a), Tail(b))

\* a.localeCompare(b) on module ids
localeCompareId(a, b) == CollationKey(a) - CollationKey(b)

RECURSIVE InsertConstraint(_, _)
\* x placed after every element that does not compare greater than it
InsertConstraint(sorted, x) ==
  IF sorted = <<>> THEN <<x>>
  ELSE IF localeCompare(Head(sorted), x) > 0 THEN <<x>> \o sorted
  ELSE <<Head(sorted)>> \o InsertConstraint(Tail(sorted), x)

RECURSIVE SortConstraints(_)
\* s.sort((a, b) => a.localeCompare(b)): Array.prototype.sort is stable, so
\* elements that compare as 0 keep their order
SortConstraints(s) ==
  IF s = <<>> THEN <<>>
  ELSE InsertConstraint(SortConstraints(SubSeq(s, 1, Len(s) - 1)), s[Len(s)])

RECURSIVE InsertModule(_, _)
InsertModule(sorted, m) ==
  IF sorted = <<>> THEN <<m>>
  ELSE IF localeCompareId(Head(sorted).id, m.id) > 0 THEN <<m>> \o sorted
  ELSE <<Head(sorted)>> \o InsertModule(Tail(sorted), m)

RECURSIVE SortModulesById(_)
\* mods.sort((a, b) => a.id.localeCompare(b.id))
SortModulesById(mods) ==
  IF mods = <<>> THEN <<>>
  ELSE InsertModule(SortModulesById(SubSeq(mods, 1, Len(mods) - 1)), mods[Len(mods)])

RECURSIVE Dedupe(_)
\* the iteration order of a Set filled from s: first occurrences, in order
Dedupe(s) ==
  IF s = <<>> THEN <<>>
  ELSE LET init == Dedupe(SubSeq(s, 1, Len(s) - 1))
       IN IF s[Len(s)] \in Range(init) THEN init ELSE Append(init, s[Len(s)])

RECURSIVE MapTrim(_)
MapTrim(ss) == IF ss = <<>> THEN <<>> ELSE <<Trim(Head(ss))>> \o MapTrim(Tail(ss))

RECURSIVE NonEmpty(_)
\* ss.filter(s => s.length > 0), also ss.filter(Boolean) on strings
NonEmpty(ss) ==
  IF ss = <<>> THEN <<>>
  ELSE IF Head(ss) # <<>> THEN <<Head(ss)>> \o NonEmpty(Tail(ss))
  ELSE NonEmpty(Tail(ss))

-----------------------------------------------------------------------------
(* assembleFrames.ts *)

formatSection(title, blocks) ==
  LET cleaned == NonEmpty(MapTrim(blocks))
  IN IF cleaned = <<>> THEN <<>>
     ELSE <<title, NL>> \o Join(cleaned, <<NL, NL>>) \o <<NL>>

RECURSIVE BulletLines(_)
BulletLines(cs) ==
  IF cs = <<>> THEN <<>>
  ELSE <<(<<"-", SP>> \o Head(cs))>> \o BulletLines(Tail(cs))

formatConstraints(constraints) ==
  LET cleaned == NonEmpty(MapTrim(constraints))
  IN IF cleaned = <<>> THEN <<>>
     ELSE <<"CONSTRAINTS", NL>> \o Join(BulletLines(cleaned), <<NL>>) \o <<NL>>

formatIdentity(input) ==
  LET lines ==
        (IF Truthy(input.character_ref)
           THEN << <<"Use the uploaded CHARACTER REFERENCE IMAGE as the exact identity.">> >>
           ELSE <<>>)
        \o (IF Truthy(input.product_ref)
           THEN << <<"Use the uploaded PRODUCT REFERENCE IMAGE as the exact source.">> >>
           ELSE <<>>)
        \o (IF Truthy(input.environment_ref)
           THEN << <<"Use the uploaded ENVIRONMENT REFERENCE IMAGE as the spatial anchor.">> >>
           ELSE <<>>)
  IN Join(IF lines = <<>> THEN << <<"No reference images specified.">> >> ELSE lines,
          <<NL>>)

-----------------------------------------------------------------------------
(* enforceConstraints.ts *)

\* assertUniqueModuleIds throws
HasDuplicateId(ids) == \E i, j \in 1..Len(ids) : i < j /\ ids[i] = ids[j]

FirstDuplicate(ids) ==
  ids[CHOOSE j \in 1..Len(ids) :
        /\ \E i \in 1..(j - 1) : ids[i] = ids[j]
        /\ \A k \in 1..(j - 1) : \A i \in 1..(k - 1) : ids[i] # ids[k]]

\* modules.some(m => m.prompt_text.includes(marker)): "true", "false", or
\* "TypeError" when the scan reaches a record without prompt_text first
SomeIncludes(modules, marker) ==
  LET hits == {i \in 1..Len(modules) :
                 modules[i].hasText /\ Includes(modules[i].prompt_text, marker)}
      bad == {i \in 1..Len(modules) : ~modules[i].hasText}
  IN IF \E b \in bad : \A h \in hits : b < h THEN "TypeError"
     ELSE IF hits # {} THEN "true" ELSE "false"

CharacterRequired ==
  "Character reference required: a selected module mentions 'CHARACTER REFERENCE IMAGE'."
ProductRequired ==
  "Product reference required: a selected module mentions 'PRODUCT REFERENCE IMAGE'."
EnvironmentRequired ==
  "Environment reference required: a selected module mentions 'ENVIRONMENT REFERENCE IMAGE'."
TypeError == "TypeError: Cannot read properties of undefined (reading 'includes')"
NoError == ""

\* a faulty validateReferences that C5 must tell from the real one: it checks
\* the character reference only
validateReferencesCharacterOnly(modules, input) ==
  LET needsCharacter == SomeIncludes(modules, HasCharacterMarker)
  IN IF needsCharacter = "TypeError" THEN TypeError
     ELSE IF needsCharacter = "true" /\ ~Truthy(input.character_ref) THEN CharacterRequired
     ELSE NoError

\* validateReferences: the message of the error thrown, or NoError
validateReferences(modules, input) ==
  LET needsCharacter == SomeIncludes(modules, HasCharacterMarker)
      needsProduct == SomeIncludes(modules, HasProductMarker)
      needsEnvironment == SomeIncludes(modules, HasEnvironmentMarker)
  IN IF "TypeError" \in {needsCharacter, needsProduct, needsEnvironment} THEN TypeError
     ELSE IF needsCharacter = "true" /\ ~Truthy(input.character_ref) THEN CharacterRequired
     ELSE IF needsProduct = "true" /\ ~Truthy(input.product_ref) THEN ProductRequired
     ELSE IF needsEnvironment = "true" /\ ~Truthy(input.environment_ref)
       THEN EnvironmentRequired
     ELSE NoError

-----------------------------------------------------------------------------
(* compilePrompt.ts *)

CATEGORY_ORDER == <<
  [category |-> "facial_pose", sectionTitle |-> "FACIAL POSES"],
  [category |-> "anatomy_pose", sectionTitle |-> "ANATOMY / BODY"],
  [category |-> "apparel_textile", sectionTitle |-> "APPAREL / TEXTILE"],
  [category |-> "product", sectionTitle |-> "PRODUCT / MACRO"],
  [category |-> "cinematography", sectionTitle |-> "CINEMATOGRAPHY"]
>>

\* a faulty normalisation that C30 must tell from the real one: runs of
\* newlines stay as they are
KeepNewlines(t) == t

RECURSIVE CollapseNewlines(_)
\* t.replace(/\n{3,}/g, "\n\n")
CollapseNewlines(t) ==
  IF Len(t) >= 3 /\ t[1] = NL /\ t[2] = NL /\ t[3] = NL THEN CollapseNewlines(Tail(t))
  ELSE IF t = <<>> THEN <<>>
  ELSE <<Head(t)>> \o CollapseNewlines(Tail(t))

Failure(message) ==
  [ok |-> FALSE, error |-> message, prompt |-> <<>>, usedModuleIds |-> <<>>,
   dedupedConstraints |-> <<>>]

UnknownModuleId(id) == "Unknown module id: '" \o id \o "'"
DuplicateSelectedId(id) == "Duplicate module id selected: '" \o id \o "'"

\* the constraints of the resolved modules, in resolution order
AllConstraints(resolved) == Concat([i \in 1..Len(resolved) |-> resolved[i].constraints])

dedupedConstraintsOf(resolved) ==
  SortConstraints(NonEmpty(MapTrim(Dedupe(AllConstraints(resolved)))))

\* a faulty grouping that C23 must tell from the real one: the modules of a
\* category stay in selection order
byCategoryInSelectionOrder(resolved, category) ==
  Filter(resolved, {m \in Range(resolved) : m.category = category})

\* byCategory[category], sorted by id
byCategory(resolved, category) ==
  SortModulesById(Filter(resolved, {m \in Range(resolved) : m.category = category}))

Texts(mods) == [i \in 1..Len(mods) |-> mods[i].prompt_text]

\* a faulty block list that C12 must tell from the real one: it leaves the
\* GLOBAL RULES block out
BlocksWithoutGlobalRules(input, resolved) ==
  << formatSection("IDENTITY & REFERENCES", <<formatIdentity(input)>>) >>
  \o [i \in 1..Len(CATEGORY_ORDER) |->
        formatSection(CATEGORY_ORDER[i].sectionTitle,
                      Texts(byCategory(resolved, CATEGORY_ORDER[i].category)))]
  \o (IF Len(input.variation_ids) > 0
        THEN <<formatSection("VARIATIONS",
                             [i \in 1..Len(input.variation_ids) |-> <<input.variation_ids[i]>>])>>
        ELSE <<>>)
  \o <<formatConstraints(dedupedConstraintsOf(resolved))>>

Blocks(input, resolved) ==
  << formatSection("IDENTITY & REFERENCES", <<formatIdentity(input)>>),
     formatSection("GLOBAL RULES", Texts(Globals)) >>
  \o [i \in 1..Len(CATEGORY_ORDER) |->
        formatSection(CATEGORY_ORDER[i].sectionTitle,
                      Texts(byCategory(resolved, CATEGORY_ORDER[i].category)))]
  \o (IF Len(input.variation_ids) > 0
        THEN <<formatSection("VARIATIONS",
                             [i \in 1..Len(input.variation_ids) |-> <<input.variation_ids[i]>>])>>
        ELSE <<>>)
  \o <<formatConstraints(dedupedConstraintsOf(resolved))>>

compilePrompt(input) ==
  LET ids == input.selected_modules
  IN IF HasDuplicateId(ids) THEN Failure(DuplicateSelectedId(FirstDuplicate(ids)))
     ELSE IF \E i \in 1..Len(ids) : ~HasById(ids[i])
       THEN Failure(UnknownModuleId(
              ids[CHOOSE i \in 1..Len(ids) :
                    ~HasById(ids[i]) /\ \A j \in 1..(i - 1) : HasById(ids[j])]))
     ELSE LET resolved == [i \in 1..Len(ids) |-> ById(ids[i])]
              refError == validateReferences(resolved, input)
          IN IF refError # NoError THEN Failure(refError)
             ELSE [ok |-> TRUE, error |-> NoError,
                   prompt |-> Trim(CollapseNewlines(Join(Blocks(input, resolved), <<NL>>)))
                                \o <<NL>>,
                   usedModuleIds |-> [i \in 1..Len(resolved) |-> resolved[i].id],
                   dedupedConstraints |-> dedupedConstraintsOf(resolved)]


-----------------------------------------------------------------------------
(* stateMachine.ts: fingerprint and reduce *)

\* the UTF-16 code units of the strings a state can hold (str.charCodeAt)
CharCodes(str) ==
  CASE str = "null" -> <<110, 117, 108, 108>>
    [] str = "refs" -> <<114, 101, 102, 115>>
    [] str = "selected" -> <<115, 101, 108, 101, 99, 116, 101, 100>>
    [] str = "variations" -> <<118, 97, 114, 105, 97, 116, 105, 111, 110, 115>>
    [] str = "character" -> <<99, 104, 97, 114, 97, 99, 116, 101, 114>>
    [] str = "product" -> <<112, 114, 111, 100, 117, 99, 116>>
    [] str = "environment" -> <<101, 110, 118, 105, 114, 111, 110, 109, 101, 110, 116>>
    [] str = "facial_pose" -> <<102, 97, 99, 105, 97, 108, 95, 112, 111, 115, 101>>
    [] str = "anatomy_pose" -> <<97, 110, 97, 116, 111, 109, 121, 95, 112, 111, 115, 101>>
    [] str = "apparel_textile" -> <<97, 112, 112, 97, 114, 101, 108, 95, 116, 101, 120, 116, 105, 108, 101>>
    [] str = "cinematography" -> <<99, 105, 110, 101, 109, 97, 116, 111, 103, 114, 97, 112, 104, 121>>
    [] str = "global_rules_core" -> <<103, 108, 111, 98, 97, 108, 95, 114, 117, 108, 101, 115, 95, 99, 111, 114, 101>>
    [] str = "facial_pose_primary_moods" -> <<102, 97, 99, 105, 97, 108, 95, 112, 111, 115, 101, 95, 112, 114, 105, 109, 97, 114, 121, 95, 109, 111, 111, 100, 115>>
    [] str = "facial_pose_bizarre_expressions" -> <<102, 97, 99, 105, 97, 108, 95, 112, 111, 115, 101, 95, 98, 105, 122, 97, 114, 114, 101, 95, 101, 120, 112, 114, 101, 115, 115, 105, 111, 110, 115>>
    [] str = "anatomy_pose_fashion_stances" -> <<97, 110, 97, 116, 111, 109, 121, 95, 112, 111, 115, 101, 95, 102, 97, 115, 104, 105, 111, 110, 95, 115, 116, 97, 110, 99, 101, 115>>
    [] str = "anatomy_pose_hand_gestures" -> <<97, 110, 97, 116, 111, 109, 121, 95, 112, 111, 115, 101, 95, 104, 97, 110, 100, 95, 103, 101, 115, 116, 117, 114, 101, 115>>
    [] str = "product_macro" -> <<112, 114, 111, 100, 117, 99, 116, 95, 109, 97, 99, 114, 111>>
    [] str = "cinematography_editorial_set_projection" -> <<99, 105, 110, 101, 109, 97, 116, 111, 103, 114, 97, 112, 104, 121, 95, 101, 100, 105, 116, 111, 114, 105, 97, 108, 95, 115, 101, 116, 95, 112, 114, 111, 106, 101, 99, 116, 105, 111, 110>>
    [] str = "ghost" -> <<103, 104, 111, 115, 116>>
    [] str = "constructor" -> <<99, 111, 110, 115, 116, 114, 117, 99, 116, 111, 114>>
    [] str = "" -> <<>>
    [] str = "uploaded" -> <<117, 112, 108, 111, 97, 100, 101, 100>>
    [] str = "char_ref" -> <<99, 104, 97, 114, 95, 114, 101, 102>>
    [] str = "var1" -> <<118, 97, 114, 49>>
    [] str = "var2" -> <<118, 97, 114, 50>>
    [] str = "var3" -> <<118, 97, 114, 51>>
    [] str = "var4" -> <<118, 97, 114, 52>>

RECURSIVE CodeUnitsLess(_, _)
\* a < b as Array.prototype.sort() without a comparator orders strings
CodeUnitsLess(a, b) ==
  IF b = <<>> THEN FALSE
  ELSE IF a = <<>> THEN TRUE
  ELSE IF Head(a) # Head(b) THEN Head(a) < Head(b)
  ELSE CodeUnitsLess(Tail(a), Tail(b))

RECURSIVE InsertString(_, _)
InsertString(sorted, x) ==
  IF sorted = <<>> THEN <<x>>
  ELSE IF CodeUnitsLess(CharCodes(x), CharCodes(Head(sorted))) THEN <<x>> \o sorted
  ELSE <<Head(sorted)>> \o InsertString(Tail(sorted), x)

\* a faulty sort that C16 must tell from the real one: it leaves the order
SortStringsKeepingOrder(strings) == strings

RECURSIVE SortStrings(_)
\* [...strings].sort()
SortStrings(strings) ==
  IF strings = <<>> THEN <<>>
  ELSE InsertString(SortStrings(SubSeq(strings, 1, Len(strings) - 1)), strings[Len(strings)])

\* JSON.stringify of a string | null (no character of these strings is escaped)
JsonString(v) == IF v = Null THEN CharCodes("null") ELSE <<34>> \o CharCodes(v) \o <<34>>

\* stableStringify of an array of strings
StringifyArray(items) ==
  <<91>> \o Join([i \in 1..Len(items) |-> JsonString(items[i])], <<44>>) \o <<93>>

\* stableStringify of an object: keys sorted, "key":value joined by commas;
\* values[k] is the stringified value of key k
StringifyObject(keys, values) ==
  LET sorted == SortStrings(keys)
  IN <<123>>
     \o Join([i \in 1..Len(sorted) |-> JsonString(sorted[i]) \o <<58>> \o values[sorted[i]]],
             <<44>>)
     \o <<125>>

\* stableStringify({refs, selected, variations: [...variations].sort()})
stableStringify(st) ==
  StringifyObject(<<"refs", "selected", "variations">>,
    [k \in {"refs", "selected", "variations"} |->
       CASE k = "refs" ->
              StringifyObject(<<"character", "product", "environment">>,
                              [slot \in RefSlot |-> JsonString(st.refs[slot])])
         [] k = "selected" ->
              StringifyObject(SelectedKeys,
                              [c \in SelectedKeySet |-> StringifyArray(st.selected[c])])
         [] k = "variations" -> StringifyArray(SortStrings(st.variations))])

\* 32-bit values are kept as <<high 16 bits, low 16 bits>>
Two16 == 65536

RECURSIVE Xor(_, _)
\* bitwise exclusive or of two naturals
Xor(a, b) ==
  IF a = 0 THEN b
  ELSE IF b = 0 THEN a
  ELSE 2 * Xor(a \div 2, b \div 2) + ((a + b) % 2)

\* the exclusive or of every pair of 7-bit values (a code unit of these strings
\* is below 128, so it changes only the low 7 bits of the hash)
Xor7 == [a \in 0..127 |-> [b \in 0..127 |-> Xor(a, b)]]

\* ((hash << 5) + hash) ^ code, as a 32-bit pattern, for code < 128
Djb2Step(hash, code) ==
  LET lo33 == hash[2] * 33
  IN <<(hash[1] * 33 + (lo33 \div Two16)) % Two16,
       (lo33 % Two16) - (lo33 % 128) + Xor7[lo33 % 128][code]>>

RECURSIVE Djb2Range(_, _, _, _)
\* the loop body applied to codes[from..to] in order, starting from hash (a hash
\* is never negative: that test only makes the evaluation take hash first)
Djb2Range(codes, from, to, hash) ==
  IF from > to \/ hash[1] < 0 THEN hash
  ELSE IF from = to THEN Djb2Step(hash, codes[from])
  ELSE LET mid == (from + to) \div 2
       IN Djb2Range(codes, mid + 1, to, Djb2Range(codes, from, mid, hash))

\* djb2(str): hash = 5381, folded over the code units, then >>> 0
djb2(codes) == Djb2Range(codes, 1, Len(codes), <<0, 5381>>)

HexDigits == <<"0", "1", "2", "3", "4", "5", "6", "7", "8", "9", "a", "b", "c", "d", "e", "f">>

RECURSIVE Hex(_)
\* n.toString(16) for a natural n: no leading zeros
Hex(n) == IF n < 16 THEN HexDigits[n + 1] ELSE Hex(n \div 16) \o HexDigits[(n % 16) + 1]

\* the low half as exactly four digits, below a non-zero high half
Hex4(n) ==
  HexDigits[(n \div 4096) + 1] \o HexDigits[((n \div 256) % 16) + 1]
    \o HexDigits[((n \div 16) % 16) + 1] \o HexDigits[(n % 16) + 1]

\* hash.toString(16) of an unsigned 32-bit hash
ToString16(hash) == IF hash[1] = 0 THEN Hex(hash[2]) ELSE Hex(hash[1]) \o Hex4(hash[2])

fingerprint(st) == ToString16(djb2(stableStringify(st)))

Event ==
  [type : {"SET_REF"}, slot : RefSlot, value : RefValues]
  \cup [type : {"CLEAR_REF"}, slot : RefSlot]
  \cup [type : {"SELECT_MODULE"}, moduleId : ModuleIds]
  \cup [type : {"DESELECT_MODULE"}, moduleId : ModuleIds]
  \cup [type : {"CLEAR_CATEGORY"}, category : SelectedKeySet]
  \cup [type : {"ADD_VARIATION"}, variationId : VariationIds]
  \cup [type : {"REMOVE_VARIATION"}, variationId : VariationIds]
  \cup [type : {"COMPILE"}]

\* what a call of reduce does: it returns a state, or it throws
Returns(next) == [threw |-> FALSE, next |-> next]
Throws(st) == [threw |-> TRUE, next |-> st]

UnsupportedCategory(category) ==
  "Unsupported module category for selection: '"
    \o (IF category = Undefined THEN "undefined" ELSE category) \o "'"

NullCompiled == [present |-> FALSE]

\* a faulty WithErrors that C1 must tell from the real one: it stores the
\* errors and leaves compiled as it was
WithErrorsKeepingCompiled(next, errors) == Returns([next EXCEPT !.errors = errors])

\* next.errors = errors; if (errors.length > 0) next.compiled = null
WithErrors(next, errors) ==
  Returns([next EXCEPT !.errors = errors,
                       !.compiled = IF Len(errors) > 0 THEN NullCompiled ELSE @])

\* a faulty applyErrors that C2 must tell from the real one: it returns
\* next without validating it
applyErrorsUnvalidated(next) == Returns(next)

\* the closure applyErrors, then return next
applyErrors(next) ==
  IF resolveModulesThrows(next) THEN Throws(next)
  ELSE WithErrors(next, validateState(next))

\* a faulty rejection that C34 must tell from the real one: the message is
\* not stored, errors stays empty
RejectedSilently(next, message) ==
  Returns([next EXCEPT !.compiled = NullCompiled])

Rejected(next, message) ==
  Returns([next EXCEPT !.errors = <<message>>, !.compiled = NullCompiled])

reduceSetRef(next, event) ==
  applyErrors([next EXCEPT !.refs[event.slot] = event.value])

\* a faulty CLEAR_REF that C26 must tell from the real one: it clears all
\* three slots
reduceClearRefAllSlots(next, event) ==
  applyErrors([next EXCEPT !.refs = [k \in RefSlot |-> Null]])

reduceClearRef(next, event) ==
  applyErrors([next EXCEPT !.refs[event.slot] = Null])

\* a faulty ADD_VARIATION that C29 must tell from the real one: it pushes the
\* id whether or not the list holds it
reduceAddVariationAlways(next, event) ==
  applyErrors([next EXCEPT !.variations = Append(@, event.variationId)])

reduceAddVariation(next, event) ==
  applyErrors(IF event.variationId \in Range(next.variations) THEN next
              ELSE [next EXCEPT !.variations = Append(@, event.variationId)])

reduceRemoveVariation(next, event) ==
  applyErrors([next EXCEPT !.variations = Filter(@, Range(@) \ {event.variationId})])

\* a faulty CLEAR_CATEGORY that C28 must tell from the real one: it does not
\* validate the new snapshot
reduceClearCategoryUnvalidated(next, event) ==
  Returns([next EXCEPT !.selected[event.category] = <<>>])

reduceClearCategory(next, event) ==
  applyErrors([next EXCEPT !.selected[event.category] = <<>>])

\* a faulty DESELECT_MODULE that C27 must tell from the real one: it empties
\* every selection list
reduceDeselectModuleEmptyingAll(next, event) ==
  applyErrors([next EXCEPT !.selected = [k \in SelectedKeySet |-> <<>>]])

reduceDeselectModule(next, event) ==
  IF HasById(event.moduleId)
    THEN LET key == findCategoryKeyForModule(ById(event.moduleId))
         IN applyErrors(IF key # Null
                          THEN [next EXCEPT !.selected[key] =
                                              Filter(@, Range(@) \ {event.moduleId})]
                          ELSE next)
    ELSE applyErrors([next EXCEPT !.selected =
                        [k \in SelectedKeySet |->
                           Filter(next.selected[k], Range(next.selected[k]) \ {event.moduleId})]])

\* SELECT_MODULE for a library module mod, scopeError being what
\* violatesScopeOnSelect returned for it
\* a faulty SELECT_MODULE that C19 must tell from the real one: it stores the
\* selection before it looks at the result of the scope pre-check
SelectKnownRejectingLate(next, mod, scopeError) ==
  LET key == findCategoryKeyForModule(mod)
  IN IF key = Null
       THEN Rejected(next, IF scopeError # NoScopeError THEN scopeError
                           ELSE UnsupportedCategory(mod.category))
     ELSE IF scopeError # NoScopeError
       THEN Rejected([next EXCEPT !.selected[key] = <<mod.id>>], scopeError)
     ELSE applyErrors([next EXCEPT !.selected[key] = <<mod.id>>])

\* a faulty SELECT_MODULE that C11 must tell from the real one: it pushes the
\* id on the category's list instead of replacing the list
SelectKnownAppending(next, mod, scopeError) ==
  LET key == findCategoryKeyForModule(mod)
  IN IF scopeError # NoScopeError THEN Rejected(next, scopeError)
     ELSE IF key = Null THEN Rejected(next, UnsupportedCategory(mod.category))
     ELSE applyErrors([next EXCEPT !.selected[key] = Append(@, mod.id)])

SelectKnown(next, mod, scopeError) ==
  LET key == findCategoryKeyForModule(mod)
  IN IF scopeError # NoScopeError THEN Rejected(next, scopeError)
     ELSE IF key = Null THEN Rejected(next, UnsupportedCategory(mod.category))
     ELSE applyErrors([next EXCEPT !.selected[key] = <<mod.id>>])

\* a faulty SELECT_MODULE that C3 must tell from the real one: without the
\* unknown-id guard, deriveMeta reads prompt_text of undefined and throws
reduceSelectModuleUnguarded(next, event) ==
  IF ~HasById(event.moduleId) \/ resolveModulesThrows(next) THEN Throws(next)
  ELSE SelectKnown(next, ById(event.moduleId),
                   violatesScopeOnSelect(ById(event.moduleId), next))

reduceSelectModule(next, event) ==
  IF ~HasById(event.moduleId) THEN Rejected(next, UnknownModuleId(event.moduleId))
  ELSE IF resolveModulesThrows(next) THEN Throws(next)
  ELSE SelectKnown(next, ById(event.moduleId),
                   violatesScopeOnSelect(ById(event.moduleId), next))

\* a faulty COMPILE that C25 must tell from the real one: it keeps a compiled
\* prompt the snapshot already holds instead of storing the new output
CompileValidKeepingCompiled(next, out) ==
  IF ~out.ok THEN Throws(next)
  ELSE IF next.compiled.present THEN Returns([next EXCEPT !.errors = <<>>])
  ELSE Returns([next EXCEPT
         !.compiled = [present |-> TRUE,
                       prompt |-> out.prompt,
                       usedModuleIds |-> out.usedModuleIds,
                       dedupedConstraints |-> out.dedupedConstraints,
                       fingerprint |-> fingerprint(next)],
         !.errors = <<>>])

\* COMPILE once validateState returned no error: out is what compilePrompt
\* returned (ok) or the failure it threw
CompileValid(next, out) ==
  IF ~out.ok THEN Throws(next)
  ELSE Returns([next EXCEPT
         !.compiled = [present |-> TRUE,
                       prompt |-> out.prompt,
                       usedModuleIds |-> out.usedModuleIds,
                       dedupedConstraints |-> out.dedupedConstraints,
                       fingerprint |-> fingerprint(next)],
         !.errors = <<>>])

\* a faulty COMPILE that C4 must tell from the real one: it calls the
\* compiler whatever validateState returned
CompileUnvalidated(next, errors) ==
  CompileValid(next, compilePrompt(makeCompileInput(next)))

\* COMPILE, errors being what validateState returned
CompileValidated(next, errors) ==
  IF Len(errors) > 0
    THEN Returns([next EXCEPT !.errors = errors, !.compiled = NullCompiled])
    ELSE CompileValid(next, compilePrompt(makeCompileInput(next)))

reduceCompile(next) ==
  IF resolveModulesThrows(next) THEN Throws(next)
  ELSE CompileValidated(next, validateState(next))

reduce(st, event) ==
  LET next == [st EXCEPT !.errors = <<>>]
  IN CASE event.type = "SET_REF" -> reduceSetRef(next, event)
       [] event.type = "CLEAR_REF" -> reduceClearRef(next, event)
       [] event.type = "ADD_VARIATION" -> reduceAddVariation(next, event)
       [] event.type = "REMOVE_VARIATION" -> reduceRemoveVariation(next, event)
       [] event.type = "CLEAR_CATEGORY" -> reduceClearCategory(next, event)
       [] event.type = "DESELECT_MODULE" -> reduceDeselectModule(next, event)
       [] event.type = "SELECT_MODULE" -> reduceSelectModule(next, event)
       [] event.type = "COMPILE" -> reduceCompile(next)

-----------------------------------------------------------------------------
(* Object identity in reduce: which objects of next are the caller's own.   *)
(* A snapshot is the AppState object and the objects its properties refer   *)
(* to; a write through next reaches the caller's snapshot when the written  *)
(* object is one that next shares with it.                                  *)

SnapshotObjects ==
  {"state", "refs", "selected", "variations", "compiled", "errors"} \cup SelectedKeySet

\* a faulty object literal that C13 must tell from the real one: it takes
\* over state.variations instead of copying it
CopiedWithoutVariations == {"state", "refs", "selected", "errors"} \cup SelectedKeySet

\* the objects the object literal of reduce creates: next itself, the spread
\* refs, the selected object and its five spread lists, the spread
\* variations, and the [] of errors
CopiedByReduce ==
  {"state", "refs", "selected", "variations", "errors"} \cup SelectedKeySet

\* the objects of next that are objects of the input state
SharedWithInput == SnapshotObjects \ CopiedByReduce

\* the objects the handler of event writes to, by a property assignment or a
\* push, next being the copy and the assignments to next.errors and
\* next.compiled being writes to next itself
WrittenInPlace(next, event) ==
  {"state"} \cup
  CASE event.type \in {"SET_REF", "CLEAR_REF"} -> {"refs"}
    [] event.type = "ADD_VARIATION" ->
         IF event.variationId \in Range(next.variations) THEN {} ELSE {"variations"}
    [] event.type = "REMOVE_VARIATION" -> {}
    [] event.type = "CLEAR_CATEGORY" -> {"selected"}
    [] event.type = "DESELECT_MODULE" ->
         IF HasById(event.moduleId)
              /\ findCategoryKeyForModule(ById(event.moduleId)) = Null
           THEN {} ELSE {"selected"}
    [] event.type = "SELECT_MODULE" ->
         IF /\ HasById(event.moduleId)
            /\ ~resolveModulesThrows(next)
            /\ violatesScopeOnSelect(ById(event.moduleId), next) = NoScopeError
            /\ findCategoryKeyForModule(ById(event.moduleId)) # Null
           THEN {"selected"} ELSE {}
    [] event.type = "COMPILE" -> {}

\* the caller's snapshot st after the call, result being what the call left
\* in next and written the objects it wrote to that st shares
InputSeenThrough(st, result, written) ==
  IF "state" \in written THEN result
  ELSE [st EXCEPT !.refs = IF "refs" \in written THEN result.refs ELSE @,
                  !.selected = IF "selected" \in written THEN result.selected ELSE @,
                  !.variations = IF "variations" \in written THEN result.variations ELSE @]

\* the value of the caller's snapshot st after reduce(st, event) returned
InputAfter(st, event) ==
  InputSeenThrough(st, reduce(st, event).next,
                   WrittenInPlace(st, event) \cap SharedWithInput)

-----------------------------------------------------------------------------
(* The governor: a caller dispatching events to reduce, one at a time *)

\* cin when no caller has handed an input to compilePrompt directly
NoInput ==
  [character_ref |-> Null, product_ref |-> Null, environment_ref |-> Null,
   selected_modules |-> <<"(none)">>, variation_ids |-> <<>>]
NoOutput == [ok |-> FALSE, error |-> "not called", prompt |-> <<>>,
             usedModuleIds |-> <<>>, dedupedConstraints |-> <<>>]

\* no shoot result yet (useState<ShootResult | null>(null))
NoShootResult == [present |-> FALSE]

\* the UI state of App at mount: the screen, the shoot type chosen, the
\* generating flag, the shoot result, and the timeouts that are pending
InitialUi ==
  [screen |-> "landing", selectedShootType |-> Null, isGenerating |-> FALSE,
   shootResult |-> NoShootResult, timers |-> {}]

\* the governor of a process that loaded its library from the data directory
Init ==
  /\ state = initialState
  /\ thrown = FALSE
  /\ ui = InitialUi
  /\ cin = NoInput
  /\ cout = NoOutput
  /\ cprev = <<>>
  /\ dataDir = Modules
  /\ library = loadLibraryFromDataDir(Modules)

\* a caller that goes through the governor, whose last dispatch returned
Governed == ~thrown /\ cin = NoInput

\* dispatch(event): the state becomes reduce(state, event); a throw leaves it
Dispatch(event) ==
  /\ \E r \in {reduce(state, event)} :
       /\ state' = r.next
       /\ thrown' = r.threw
  /\ UNCHANGED <<cin, cout, cprev, dataDir, library, ui>>

SetRef ==
  /\ Governed
  /\ \E event \in [type : {"SET_REF"}, slot : RefSlot, value : RefValues] :
       Dispatch(event)

ClearRef ==
  /\ Governed
  /\ \E event \in [type : {"CLEAR_REF"}, slot : RefSlot] : Dispatch(event)

AddVariation ==
  /\ Governed
  /\ \E event \in [type : {"ADD_VARIATION"}, variationId : VariationIds] :
       Dispatch(event)

RemoveVariation ==
  /\ Governed
  /\ \E event \in [type : {"REMOVE_VARIATION"}, variationId : VariationIds] :
       Dispatch(event)

ClearCategory ==
  /\ Governed
  /\ \E event \in [type : {"CLEAR_CATEGORY"}, category : SelectedKeySet] :
       Dispatch(event)

DeselectModule ==
  /\ Governed
  /\ \E event \in [type : {"DESELECT_MODULE"}, moduleId : ModuleIds] :
       Dispatch(event)

SelectModule ==
  /\ Governed
  /\ \E event \in [type : {"SELECT_MODULE"}, moduleId : ModuleIds] :
       Dispatch(event)

Compile ==
  /\ Governed
  /\ \E event \in [type : {"COMPILE"}] : Dispatch(event)

Next ==
  \/ SetRef
  \/ ClearRef
  \/ AddVariation
  \/ RemoveVariation
  \/ ClearCategory
  \/ DeselectModule
  \/ SelectModule
  \/ Compile

Spec == Init /\ [][Next]_vars


-----------------------------------------------------------------------------
(* A caller of compilePrompt that bypasses the governor: it calls the      *)
(* compiler with an input of its own, then again with the same input       *)
(* reordered.                                                              *)

\* the sequences over S of length at most n
SeqsUpTo(S, n) == UNION {[1..k -> S] : k \in 0..n}

\* the data directories a direct caller's library is loaded from
DataDirs == {Modules, ModulesWithoutGlobals, ModulesWithCampaign}

\* the ids a direct caller may hand over: those of the records, and foreign ones
InputIds == {m.id : m \in Range(ModulesWithCampaign)} \cup ForeignIds

CompileInput ==
  [character_ref : RefValues, product_ref : RefValues, environment_ref : RefValues,
   selected_modules : SeqsUpTo(InputIds, MaxSelected),
   variation_ids : SeqsUpTo(VariationIds, MaxVariations)]

\* the permutations of 1..n
Reorderings(n) == {p \in [1..n -> 1..n] : \A i, j \in 1..n : p[i] = p[j] => i = j}

InitCompile ==
  /\ state = initialState
  /\ thrown = FALSE
  /\ ui = InitialUi
  /\ cin \in CompileInput
  /\ cout = NoOutput
  /\ cprev = <<>>
  /\ dataDir \in DataDirs
  /\ library = loadLibraryFromDataDir(dataDir)

\* compilePrompt(cin, library)
CallCompilePrompt ==
  /\ cin # NoInput
  /\ cout = NoOutput
  /\ cout' = compilePrompt(cin)
  /\ UNCHANGED <<state, thrown, cin, cprev, dataDir, library, ui>>

\* compilePrompt again, on the same input with selected_modules reordered
CallReordered ==
  /\ cin # NoInput
  /\ cout # NoOutput
  /\ cprev = <<>>
  /\ \E p \in Reorderings(Len(cin.selected_modules)) :
       /\ cin' = [cin EXCEPT !.selected_modules = [i \in 1..Len(@) |-> @[p[i]]]]
       /\ cout' = compilePrompt(cin')
  /\ cprev' = <<[input |-> cin, output |-> cout]>>
  /\ UNCHANGED <<state, thrown, dataDir, library, ui>>

NextCompile ==
  \/ CallCompilePrompt
  \/ CallReordered

SpecCompile == InitCompile /\ [][NextCompile]_vars

\* both callers: one that goes through the governor, one that does not
InitTracks == Init \/ InitCompile

NextTracks ==
  \/ Next
  \/ NextCompile

SpecTracks == InitTracks /\ [][NextTracks]_vars

-----------------------------------------------------------------------------
(* Library construction: a process start that builds the library from the   *)
(* records of its data files, with the server's loader or with the UI's.    *)

\* longest list of records in the data files
MaxRecords == 3

\* a record with the id of another and a different body
Homonym == [Modules[2] EXCEPT !.category = "global_rules", !.constraints = <<>>]

\* records whose id is a key of Object.prototype, is missing, or is empty
Inherited == [Modules[4] EXCEPT !.id = "constructor"]
Anonymous == [Modules[5] EXCEPT !.id = Undefined]
Unnamed == [Modules[6] EXCEPT !.id = ""]

\* the records the data files may hold
Records == {Modules[1], Modules[2], Homonym, Inherited, Anonymous, Unnamed}

InitLoad ==
  /\ state = initialState
  /\ thrown = FALSE
  /\ ui = InitialUi
  /\ cin = NoInput
  /\ cout = NoOutput
  /\ cprev = <<>>
  /\ dataDir \in SeqsUpTo(Records, MaxRecords)
  /\ library = NoLibrary

\* the server starts: library = loadLibraryFromDataDir(dataDir)
LoadLibraryFromDataDir ==
  /\ library = NoLibrary
  /\ library' = loadLibraryFromDataDir(dataDir)
  /\ UNCHANGED <<state, thrown, cin, cout, cprev, dataDir, ui>>

\* the UI starts: library = buildLibrary()
BuildLibrary ==
  /\ library = NoLibrary
  /\ library' = buildLibrary(dataDir)
  /\ UNCHANGED <<state, thrown, cin, cout, cprev, dataDir, ui>>

NextLoad ==
  \/ LoadLibraryFromDataDir
  \/ BuildLibrary

SpecLoad == InitLoad /\ [][NextLoad]_vars


-----------------------------------------------------------------------------
(* fingerprint called directly: on a snapshot, then on a snapshot of the    *)
(* same refs, selection and variations that another history left (its       *)
(* variations added in another order, other errors, another compiled).      *)

\* most variation ids a snapshot handed to fingerprint holds
MaxFingerprintVariations == 3

FingerprintVariationIds == {"var" \o ToString(i) : i \in 1..MaxFingerprintVariations}

\* the variations lists ADD_VARIATION builds: no id twice
VariationLists ==
  {v \in SeqsUpTo(FingerprintVariationIds, MaxFingerprintVariations) :
     \A i, j \in 1..Len(v) : v[i] = v[j] => i = j}

\* most categories that hold a module in a snapshot handed to fingerprint
MaxFingerprintSelected == 1

\* the selections SELECT_MODULE builds: per category no id, or one of its own
Selections ==
  {sel \in [SelectedKeySet ->
              {<<>>} \cup {<<m.id>> : m \in Range(Modules)}] :
     /\ \A key \in SelectedKeySet :
          \A m \in Range(Modules) : sel[key] = <<m.id>> => m.category = key
     /\ Cardinality({key \in SelectedKeySet : sel[key] # <<>>}) <= MaxFingerprintSelected}

\* a compiled prompt of an earlier COMPILE
StaleCompiled ==
  [present |-> TRUE, prompt |-> <<>>, usedModuleIds |-> <<>>,
   dedupedConstraints |-> <<>>, fingerprint |-> "0"]

\* what histories leave beside refs, selected and variations
Histories ==
  {[compiled |-> NullCompiled, errors |-> <<>>],
   [compiled |-> NullCompiled, errors |-> <<MissingCharacter>>],
   [compiled |-> StaleCompiled, errors |-> <<>>]}

InitFingerprint ==
  /\ state \in [refs : [RefSlot -> RefValues], selected : Selections,
                variations : VariationLists, compiled : {NullCompiled},
                errors : {<<>>}]
  /\ thrown = FALSE
  /\ ui = InitialUi
  /\ cin = NoInput
  /\ cout = NoOutput
  /\ cprev = <<>>
  /\ dataDir = Modules
  /\ library = loadLibraryFromDataDir(Modules)

\* fingerprint(state)
CallFingerprint ==
  /\ cout = NoOutput
  /\ cout' = [fingerprint |-> fingerprint(state)]
  /\ UNCHANGED <<state, thrown, cin, cprev, dataDir, library, ui>>

\* fingerprint again, on a snapshot with the same variations in another order
\* and with another history
CallFingerprintAgain ==
  /\ cout # NoOutput
  /\ cprev = <<>>
  /\ \E p \in Reorderings(Len(state.variations)) : \E h \in Histories :
       /\ state' = [state EXCEPT !.variations = [i \in 1..Len(@) |-> @[p[i]]],
                                 !.compiled = h.compiled,
                                 !.errors = h.errors]
       /\ cout' = [fingerprint |-> fingerprint(state')]
  /\ cprev' = <<[input |-> state, output |-> cout]>>
  /\ UNCHANGED <<thrown, cin, dataDir, library, ui>>

NextFingerprint ==
  \/ CallFingerprint
  \/ CallFingerprintAgain

SpecFingerprint == InitFingerprint /\ [][NextFingerprint]_vars

-----------------------------------------------------------------------------
(* validateState called directly, on a snapshot with any combination of one *)
(* library module per category.                                             *)

\* per category no id, or one id of a module of that category
CategorySelections ==
  {sel \in [SelectedKeySet ->
              {<<>>} \cup {<<m.id>> : m \in Range(Modules)}] :
     \A key \in SelectedKeySet :
       \A m \in Range(Modules) : sel[key] = <<m.id>> => m.category = key}

InitValidate ==
  /\ state \in [refs : [RefSlot -> RefValues], selected : CategorySelections,
                variations : {<<>>}, compiled : {NullCompiled}, errors : {<<>>}]
  /\ thrown = FALSE
  /\ ui = InitialUi
  /\ cin = NoInput
  /\ cout = NoOutput
  /\ cprev = <<>>
  /\ dataDir = Modules
  /\ library = loadLibraryFromDataDir(Modules)

\* validateState(state, library)
CallValidateState ==
  /\ cout = NoOutput
  /\ cout' = [errors |-> validateState(state)]
  /\ UNCHANGED <<state, thrown, cin, cprev, dataDir, library, ui>>

NextValidate == CallValidateState

SpecValidate == InitValidate /\ [][NextValidate]_vars

-----------------------------------------------------------------------------
(* deriveMeta called directly, on a module whose text is any sequence of at *)
(* most MaxMetaTokens phrases, or that has no prompt_text at all.           *)

MaxMetaTokens == 3

\* the phrases of a module text: the three markers, a marker in lower case,
\* the two scope phrases in several cases, a phrase that holds none of them
MetaTokens ==
  {CHARACTER, PRODUCT, ENVIRONMENT, "character reference image",
   "HANDS ONLY", "Hands Only", "facial close-up", "Facial Close-Up",
   "Wide shot."}

MetaCategories == {"facial_pose", "anatomy_pose", "cinematography"}

InitMeta ==
  /\ cin \in {m \in [id : {"m"}, category : MetaCategories, hasText : BOOLEAN,
                      prompt_text : SeqsUpTo(MetaTokens, MaxMetaTokens),
                      constraints : {<<>>}] :
                ~m.hasText => m.prompt_text = <<>>}
  /\ state = initialState
  /\ thrown = FALSE
  /\ ui = InitialUi
  /\ cout = NoOutput
  /\ cprev = <<>>
  /\ dataDir = Modules
  /\ library = loadLibraryFromDataDir(Modules)

CallDeriveMeta ==
  /\ cout = NoOutput
  /\ cout' = [meta |-> deriveMeta(cin)]
  /\ UNCHANGED <<state, thrown, cin, cprev, dataDir, library, ui>>

NextMeta == CallDeriveMeta

SpecMeta == InitMeta /\ [][NextMeta]_vars

-----------------------------------------------------------------------------
(* The governor of a caller that sets references and lists up to          *)
(* MaxListedVariations variations, in any order.                          *)

MaxListedVariations == 3

ListedVariationIds == {"var" \o ToString(i) : i \in 1..MaxListedVariations}

AddListedVariation ==
  /\ Governed
  /\ \E event \in [type : {"ADD_VARIATION"}, variationId : ListedVariationIds] :
       Dispatch(event)

RemoveListedVariation ==
  /\ Governed
  /\ \E event \in [type : {"REMOVE_VARIATION"}, variationId : ListedVariationIds] :
       Dispatch(event)

NextVariations ==
  \/ SetRef
  \/ ClearRef
  \/ AddListedVariation
  \/ RemoveListedVariation

SpecVariations == Init /\ [][NextVariations]_vars

-----------------------------------------------------------------------------
(* The same governor, whose caller keeps one of the snapshots it was       *)
(* handed and goes on dispatching: two snapshots of one session.           *)

\* the caller keeps the current snapshot
KeepSnapshot ==
  /\ Governed
  /\ cprev = <<>>
  /\ cprev' = <<[input |-> state, output |-> cout]>>
  /\ UNCHANGED <<state, thrown, cin, cout, dataDir, library, ui>>

NextSnapshots ==
  \/ SetRef
  \/ ClearRef
  \/ AddListedVariation
  \/ RemoveListedVariation
  \/ KeepSnapshot

SpecSnapshots == Init /\ [][NextSnapshots]_vars

-----------------------------------------------------------------------------
(* App.tsx: the screens of the UI and its generate flow. A click handler    *)
(* runs in the render it was created in, so the state it reads is the state *)
(* of that render; the events it dispatches are reduced, in order, before   *)
(* the next render. A timeout callback created by the handler reads the     *)
(* same render's state when it fires.                                       *)

\* the refinement pass of the orchestrator, for a character reference
buildRefinementPrompt(characterRef) ==
  <<"## REFINEMENT PASS", NL, "Reference:", SP, characterRef>>

\* runShoot(compiled, input); the fingerprint is hashString of the final
\* prompt followed by the shoot type, kept here as the text that is hashed
runShoot(compiled, input) ==
  [present |-> TRUE,
   finalPrompt |-> compiled.prompt \o <<NL, NL, "---", NL, NL>>
                     \o buildRefinementPrompt(input.characterRef),
   basePrompt |-> compiled.prompt,
   refinementPass |-> buildRefinementPrompt(input.characterRef),
   fingerprint |-> compiled.prompt \o <<NL, NL, "---", NL, NL>>
                     \o buildRefinementPrompt(input.characterRef)
                     \o <<input.shootType>>]

\* allModules: the library modules that are not global rules
allModules == {id \in LibIds : byId[id].category # "global_rules"}

\* the buttons that only switch the screen
ScreenButtons ==
  {<<"landing", "upload">>, <<"upload", "landing">>, <<"upload", "choose">>,
   <<"choose", "upload">>}

RECURSIVE DispatchAll(_, _)
\* the reducer applied to the events a handler dispatched, in order
DispatchAll(st, events) ==
  IF events = <<>> THEN Returns(st)
  ELSE IF reduce(st, Head(events)).threw THEN Throws(st)
  ELSE DispatchAll(reduce(st, Head(events)).next, Tail(events))

\* the events handleGenerate dispatches for a shoot type
GenerateEvents(shootType) ==
  <<[type |-> "SET_REF", slot |-> "character", value |-> "uploaded"],
    [type |-> "SET_REF", slot |-> "product", value |-> "uploaded"],
    [type |-> "SET_REF", slot |-> "environment", value |-> "uploaded"],
    [type |-> "SELECT_MODULE", moduleId |-> shootType],
    [type |-> "COMPILE"]>>

\* setScreen(...) of a navigation button
Navigate ==
  /\ ~thrown
  /\ \E button \in ScreenButtons :
       /\ ui.screen = button[1]
       /\ ui' = [ui EXCEPT !.screen = button[2]]
  /\ UNCHANGED <<state, thrown, cin, cout, cprev, dataDir, library>>

\* a card of the choose screen: setSelectedShootType(module.id)
ChooseShootType ==
  /\ ~thrown
  /\ ui.screen = "choose"
  /\ \E id \in allModules : ui' = [ui EXCEPT !.selectedShootType = id]
  /\ UNCHANGED <<state, thrown, cin, cout, cprev, dataDir, library>>

\* handleGenerate, from the button of the choose screen (shown when a shoot
\* type is chosen, disabled while generating): the timeout callback keeps
\* state.compiled and selectedShootType of the render of the click
HandleGenerate ==
  /\ ~thrown
  /\ ui.screen = "choose"
  /\ ui.selectedShootType # Null
  /\ ~ui.isGenerating
  /\ \E r \in {DispatchAll(state, GenerateEvents(ui.selectedShootType))} :
       /\ state' = r.next
       /\ thrown' = r.threw
  /\ ui' = [ui EXCEPT !.isGenerating = TRUE,
                      !.timers = @ \cup {[compiled |-> state.compiled,
                                          shootType |-> ui.selectedShootType]}]
  /\ UNCHANGED <<cin, cout, cprev, dataDir, library>>

\* the timeout of handleGenerate fires
TimerFires ==
  /\ ~thrown
  /\ \E timer \in ui.timers :
       ui' = [ui EXCEPT
                !.timers = @ \ {timer},
                !.shootResult =
                  IF timer.compiled.present
                    THEN runShoot(timer.compiled,
                                  [characterRef |-> "uploaded",
                                   shootType |-> timer.shootType])
                    ELSE @,
                !.isGenerating = FALSE,
                !.screen = "results"]
  /\ UNCHANGED <<state, thrown, cin, cout, cprev, dataDir, library>>

HandleTryAnother ==
  /\ ~thrown
  /\ ui.screen = "results"
  /\ ui' = [ui EXCEPT !.selectedShootType = Null, !.screen = "choose"]
  /\ UNCHANGED <<state, thrown, cin, cout, cprev, dataDir, library>>

HandleStartOver ==
  /\ ~thrown
  /\ ui.screen = "results"
  /\ ui' = [ui EXCEPT !.selectedShootType = Null, !.shootResult = NoShootResult,
                      !.screen = "landing"]
  /\ UNCHANGED <<state, thrown, cin, cout, cprev, dataDir, library>>

NextGenerate ==
  \/ Navigate
  \/ ChooseShootType
  \/ HandleGenerate
  \/ TimerFires
  \/ HandleTryAnother
  \/ HandleStartOver

SpecGenerate == Init /\ [][NextGenerate]_vars

-----------------------------------------------------------------------------
(* Properties *)

SelectEvent(id) == [type |-> "SELECT_MODULE", moduleId |-> id]
CompileEvent == [type |-> "COMPILE"]

\* the library modules a SELECT_MODULE can put in a category
SelectableIds == {id \in LibIds : byId[id].category \in SelectedKeySet}

ScopeOf(id) == deriveMeta(byId[id]).scope
RequiresOf(id) == deriveMeta(byId[id]).requires
RequiresNothing(id) == \A k \in RefSlot : ~RequiresOf(id)[k]

Contains(errors, messages) == \E i \in 1..Len(errors) : errors[i] \in messages

\* the messages a rejected SELECT_MODULE leaves as the only error
SelectRejections ==
  {UnknownModuleId(id) : id \in ModuleIds}
    \cup {UnsupportedCategory(c) : c \in {"global_rules", Undefined}}
    \cup {HandsOnlyAlone, HandsOnlySelected, EnvironmentOnlyAlone, EnvironmentOnlySelected}

HandsOnlyMessages == {HandsOnlyAlone, HandsOnlySelected, HandsOnlyCombined}
EnvironmentOnlyMessages ==
  {EnvironmentOnlyAlone, EnvironmentOnlySelected, EnvironmentOnlyCombined}
ReferenceErrors == {CharacterRequired, ProductRequired, EnvironmentRequired}

\* some module of ids requires a reference kind whose slot in refs is unset
MissingReference(ids, refs) ==
  \E i \in 1..Len(ids) : \E k \in RefSlot :
    ids[i] \in LibIds /\ RequiresOf(ids[i])[k] /\ ~Truthy(refs[k])

InputRefs(input) ==
  [character |-> input.character_ref, product |-> input.product_ref,
   environment |-> input.environment_ref]

\* C1: in every reachable governor state, a non-empty errors means compiled is
\* null, and a non-null compiled means errors is empty.
C1_ErrorsExcludeCompiled ==
  /\ state.errors # <<>> => ~state.compiled.present
  /\ state.compiled.present => state.errors = <<>>

\* C1's case: a state with errors, and so without compiled, reached with a
\* module selected and the character reference set
C1_Witness ==
  /\ state.errors # <<>>
  /\ ~state.compiled.present
  /\ Truthy(state.refs.character)
  /\ flattenSelected(state.selected) # <<>>

\* C2 as stated: in every reachable state, validateState(state) equals
\* state.errors, also after a SELECT_MODULE of an unknown id or one rejected
\* for scope.
C2_ErrorsAreValidateState == state.errors = validateState(state)

\* C2 amended: in every reachable state, state.errors is what validateState
\* returns for the state, or it is the single message of a rejected
\* SELECT_MODULE (unknown id, scope exclusivity, unsupported category) and
\* compiled is null.
C2_ErrorsAreValidateStateOrRejection ==
  \/ state.errors = validateState(state)
  \/ /\ state.errors \in {<<m>> : m \in SelectRejections}
     /\ ~state.compiled.present

\* C2's case: after SELECT_MODULE of an unknown id, errors names the id while
\* validateState reports the missing reference of the selection
C2_Witness ==
  /\ state.errors = <<UnknownModuleId("ghost")>>
  /\ validateState(state) = <<MissingCharacter>>

\* C3: reduce throws for no event, whatever module id the event carries (an
\* id of the library, an unknown id, the id of a global_rules module).
C3_ReduceNeverThrows == ~thrown

\* C3's case: reduce has returned from a SELECT_MODULE of a global_rules id
C3_Witness ==
  /\ ~thrown
  /\ state.errors = <<UnsupportedCategory("global_rules")>>

\* C4: COMPILE yields a non-null compiled exactly when validateState returns
\* no error; when it returns errors, errors becomes that list, compiled is
\* null, and refs, selected and variations are unchanged.
C4_CompileGate ==
  LET r == reduce(state, CompileEvent)
      errors == validateState(state)
  IN /\ ~r.threw
     /\ r.next.compiled.present <=> errors = <<>>
     /\ errors # <<>> =>
          /\ r.next.errors = errors
          /\ ~r.next.compiled.present
          /\ r.next.refs = state.refs
          /\ r.next.selected = state.selected
          /\ r.next.variations = state.variations

\* C4's case: a COMPILE has produced compiled for a non-empty selection
C4_Witness ==
  /\ state.compiled.present
  /\ state.compiled.usedModuleIds # <<>>
  /\ validateState(state) = <<>>

\* C5: when a selected module requires a reference kind whose slot is unset,
\* a direct compilePrompt call fails (with a reference error when the
\* selection is a duplicate-free list of library ids), and COMPILE through
\* the governor ends with errors non-empty and compiled null.
C5_MissingReferenceFailsOnBothTracks ==
  /\ (cout # NoOutput /\ MissingReference(cin.selected_modules, InputRefs(cin))) =>
       /\ ~cout.ok
       /\ (/\ ~HasDuplicateId(cin.selected_modules)
           /\ Range(cin.selected_modules) \subseteq LibIds) =>
            cout.error \in ReferenceErrors
  /\ (cin = NoInput /\ MissingReference(flattenSelected(state.selected), state.refs)) =>
       LET r == reduce(state, CompileEvent)
       IN /\ ~r.threw
          /\ r.next.errors # <<>>
          /\ ~r.next.compiled.present

\* C5's case: a direct call has failed for a product module without a
\* product reference, next to a module whose reference is set
C5_Witness ==
  /\ cout # NoOutput
  /\ cout.error = ProductRequired
  /\ Len(cin.selected_modules) = 2
  /\ Truthy(cin.character_ref)

\* C6 as stated: two inputs that differ only in the order of selected_modules
\* give the same prompt and the same dedupedConstraints, and usedModuleIds is
\* the caller's order.
C6_OrderIndependent ==
  (cprev # <<>> /\ cout.ok /\ cprev[1].output.ok) =>
    /\ cout.prompt = cprev[1].output.prompt
    /\ cout.dedupedConstraints = cprev[1].output.dedupedConstraints
    /\ cout.usedModuleIds = cin.selected_modules
    /\ cprev[1].output.usedModuleIds = cprev[1].input.selected_modules

\* C7 as stated: dedupedConstraints never holds the same string twice.
C7_NoConstraintTwice ==
  cout.ok =>
    \A i, j \in 1..Len(cout.dedupedConstraints) :
      i # j => cout.dedupedConstraints[i] # cout.dedupedConstraints[j]

\* C8 as stated: once module A is the selection of a category, SELECT_MODULE
\* of another module B of that category leaves exactly [B] there.
C8_CategoryReplacement ==
  \A a, b \in SelectableIds :
    (a # b /\ byId[a].category = byId[b].category) =>
      LET category == byId[a].category
          afterA == reduce(state, SelectEvent(a)).next
          afterB == reduce(afterA, SelectEvent(b)).next
      IN afterA.selected[category] = <<a>> => afterB.selected[category] = <<b>>

\* C9: selecting a hands-only module that requires no reference, alone from
\* the initial state, leaves no error; while it is the only selection,
\* SELECT_MODULE of any other library module ends with a hands-only
\* exclusivity message in errors and compiled null.
C9_HandsOnlyExclusive ==
  \A h \in SelectableIds :
    (ScopeOf(h) = "hands_only" /\ RequiresNothing(h)) =>
      /\ LET alone == reduce(initialState, SelectEvent(h))
         IN /\ ~alone.threw
            /\ flattenSelected(alone.next.selected) = <<h>>
            /\ alone.next.errors = <<>>
      /\ flattenSelected(state.selected) = <<h>> =>
           \A x \in LibIds \ {h} :
             LET r == reduce(state, SelectEvent(x))
             IN /\ ~r.threw
                /\ Contains(r.next.errors, HandsOnlyMessages)
                /\ ~r.next.compiled.present

\* C9's case: the hands-only module is the only selection, the character
\* reference is set, and a further SELECT_MODULE has been rejected
C9_Witness ==
  /\ flattenSelected(state.selected) = <<"anatomy_pose_hand_gestures">>
  /\ Truthy(state.refs.character)
  /\ state.errors = <<HandsOnlySelected>>

\* the first half of C10: an environment-only module selected alone from the
\* initial state leaves the missing-environment error and no exclusivity error
EnvironmentOnlyAloneNeedsReference(e) ==
  LET alone == reduce(initialState, SelectEvent(e))
  IN /\ ~alone.threw
     /\ flattenSelected(alone.next.selected) = <<e>>
     /\ Contains(alone.next.errors, {MissingEnvironment})
     /\ ~Contains(alone.next.errors, HandsOnlyMessages \cup EnvironmentOnlyMessages)

\* C10 as stated: ... and once the environment reference is supplied,
\* SELECT_MODULE of any other library module, of any scope, ends with an
\* environment-only exclusivity message in errors.
C10_EnvironmentOnlyExclusive ==
  \A e \in SelectableIds :
    ScopeOf(e) = "environment_only" =>
      /\ EnvironmentOnlyAloneNeedsReference(e)
      /\ (flattenSelected(state.selected) = <<e>> /\ Truthy(state.refs.environment)) =>
           \A x \in LibIds \ {e} :
             LET r == reduce(state, SelectEvent(x))
             IN ~r.threw /\ Contains(r.next.errors, EnvironmentOnlyMessages)

\* C10 amended: ... and once the environment reference is supplied,
\* SELECT_MODULE of any other library module ends with an environment-only
\* exclusivity message in errors, unless that module is hands-only: then the
\* only error is "Hands-only module must be used alone in v1.".
C10_EnvironmentOnlyExclusiveButHandsOnly ==
  \A e \in SelectableIds :
    ScopeOf(e) = "environment_only" =>
      /\ EnvironmentOnlyAloneNeedsReference(e)
      /\ (flattenSelected(state.selected) = <<e>> /\ Truthy(state.refs.environment)) =>
           \A x \in LibIds \ {e} :
             LET r == reduce(state, SelectEvent(x))
             IN /\ ~r.threw
                /\ IF ScopeOf(x) = "hands_only"
                     THEN r.next.errors = <<HandsOnlyAlone>>
                     ELSE Contains(r.next.errors, EnvironmentOnlyMessages)

\* C10's case: the environment-only module is the only selection, its
\* reference is set, and SELECT_MODULE of a hands-only module has been rejected
C10_Witness ==
  /\ flattenSelected(state.selected) = <<"cinematography_editorial_set_projection">>
  /\ Truthy(state.refs.environment)
  /\ state.errors = <<HandsOnlyAlone>>


\* C11: in every state the governor reaches, each of the five selection lists
\* (facial_pose, anatomy_pose, apparel_textile, product, cinematography) holds
\* at most one module id.
C11_SingleSelect ==
  \A key \in SelectedKeySet : Len(state.selected[key]) <= 1

\* two categories hold a module each, after SELECT_MODULE events
C11_Witness ==
  \E a, b \in SelectedKeySet :
    a # b /\ Len(state.selected[a]) = 1 /\ Len(state.selected[b]) = 1

\* the prompt has a section with this title: the title on a line of its own
HasSection(prompt, title) ==
  \E i \in 1..(Len(prompt) - 1) :
    /\ prompt[i] = title
    /\ prompt[i + 1] = NL
    /\ i > 1 => prompt[i - 1] = NL

\* the library has a global_rules module whose prompt_text is not blank
HasGlobalRules == \E i \in 1..Len(Globals) : Trim(Globals[i].prompt_text) # <<>>

C13_InputNotMutated ==
  /\ \A event \in Event : InputAfter(state, event) = state
  /\ "state" \notin SharedWithInput

\* C13's case: a snapshot whose refs, selection and variations were written
\* by earlier calls (next.refs[slot] = value, next.selected[key] = [id],
\* next.variations.push(id)) and that also holds a compiled prompt
C13_Witness ==
  /\ state.variations # <<>>
  /\ Truthy(state.refs.character)
  /\ flattenSelected(state.selected) # <<>>
  /\ state.compiled.present
  /\ \E event \in Event : reduce(state, event).next.variations # state.variations

\* C14 as stated: a direct compilePrompt call fails exactly when
\* selected_modules repeats an id, or holds an id that is not in the library,
\* or resolves to a module that requires a reference whose slot is unset; on
\* every other input it returns an output.
C14_FailsExactlyInThreeCases ==
  cout # NoOutput =>
    (~cout.ok <=>
       \/ HasDuplicateId(cin.selected_modules)
       \/ \E id \in Range(cin.selected_modules) : id \notin LibIds
       \/ MissingReference(cin.selected_modules, InputRefs(cin)))

\* the errors compilePrompt throws by design
HardErrors ==
  {DuplicateSelectedId(id) : id \in ModuleIds}
    \cup {UnknownModuleId(id) : id \in ModuleIds}
    \cup ReferenceErrors

\* C15: in every state the governor reaches on which validateState returns no
\* error, compilePrompt on makeCompileInput(state) throws none of the
\* duplicate-id, unknown-id and missing-reference errors.
C15_HardErrorsUnreachable ==
  validateState(state) = <<>> =>
    compilePrompt(makeCompileInput(state)).error \notin HardErrors

\* C15's case: a valid state with a product module and a character module
\* selected, which COMPILE has compiled
C15_Witness ==
  /\ validateState(state) = <<>>
  /\ state.selected.product # <<>>
  /\ state.selected.facial_pose # <<>>
  /\ state.compiled.present
  /\ state.compiled.usedModuleIds = flattenSelected(state.selected)

\* two snapshots of equal refs, equal selection lists and the same variations
\* in any order
SameValue(a, b) ==
  /\ a.refs = b.refs
  /\ a.selected = b.selected
  /\ Len(a.variations) = Len(b.variations)
  /\ Range(a.variations) = Range(b.variations)

\* C16: the fingerprint is a function of value, not of history: two snapshots
\* with equal refs, equal selection lists and the same variations in any
\* order have equal fingerprints, whatever their errors and compiled are.
C16_FingerprintOfValue ==
  (cprev # <<>> /\ SameValue(state, cprev[1].input)) =>
    cout.fingerprint = cprev[1].output.fingerprint

\* C16's case: fingerprint has been called on two snapshots that hold the same
\* three variations in different orders and differ in errors
C16_Witness ==
  /\ cprev # <<>>
  /\ SameValue(state, cprev[1].input)
  /\ Len(state.variations) = 3
  /\ state.variations # cprev[1].input.variations
  /\ state.errors # cprev[1].input.errors
  /\ Truthy(state.refs.character)
  /\ state.selected.facial_pose # <<>>
  /\ cout.fingerprint = cprev[1].output.fingerprint

\* the duplicate-id errors of the two library constructors
DuplicateIdErrors ==
  {DuplicateModuleIdInLibrary(m.id) : m \in Records}
    \cup {DuplicateModuleId(m.id) : m \in Records}

\* two records of the data files share an id
SharedId == \E i, j \in 1..Len(dataDir) : i < j /\ dataDir[i].id = dataDir[j].id

\* C17 as stated: library construction fails with the duplicate-id error
\* exactly when two loaded records share an id; when it succeeds, byId maps
\* the id of every loaded record to that record and globals is the
\* global_rules records in load order.
C17_DuplicateIdIffShared ==
  library # NoLibrary =>
    /\ (~library.ok /\ library.error \in DuplicateIdErrors) <=> SharedId
    /\ library.ok =>
         /\ DOMAIN library.byId = {m.id : m \in Range(dataDir)}
         /\ \A i \in 1..Len(dataDir) : library.byId[dataDir[i].id] = dataDir[i]
         /\ library.globals = GlobalsOf(dataDir)

\* C18 as stated: SELECT_MODULE with an id that is not in the library returns
\* a state whose errors is exactly the unknown-id message for that id and
\* whose compiled is null, with refs, selected and variations unchanged.
C18_UnknownIdRejected ==
  \A id \in ModuleIds \ LibIds :
    \E r \in {reduce(state, SelectEvent(id))} :
      /\ ~r.threw
      /\ r.next.errors = <<UnknownModuleId(id)>>
      /\ ~r.next.compiled.present
      /\ r.next.refs = state.refs
      /\ r.next.selected = state.selected
      /\ r.next.variations = state.variations

\* the messages of the scope pre-check of SELECT_MODULE
ScopeMessages ==
  {HandsOnlyAlone, HandsOnlySelected, EnvironmentOnlyAlone, EnvironmentOnlySelected}

\* C19: a SELECT_MODULE that the scope pre-check rejects does not take
\* effect: the state returned has the selected lists, refs and variations of
\* the input state, errors is the scope message alone, and compiled is null.
C19_ScopeRejectionHasNoEffect ==
  \A x \in LibIds :
    \E message \in {violatesScopeOnSelect(byId[x], state)} :
      message # NoScopeError =>
        \E r \in {reduce(state, SelectEvent(x))} :
          /\ ~r.threw
          /\ r.next.selected = state.selected
          /\ r.next.refs = state.refs
          /\ r.next.variations = state.variations
          /\ r.next.errors = <<message>>
          /\ ~r.next.compiled.present

\* C19's case: a SELECT_MODULE has just been rejected by the pre-check in a
\* state that keeps its environment-only selection, reference and variation
C19_Witness ==
  /\ state.errors = <<EnvironmentOnlySelected>>
  /\ flattenSelected(state.selected) = <<"cinematography_editorial_set_projection">>
  /\ Truthy(state.refs.environment)
  /\ state.variations # <<>>
  /\ ~state.compiled.present

\* C20 as stated: a SELECT_MODULE is rejected by the scope pre-check only if
\* some module is selected in a category other than the incoming module's.
C20_PreCheckIgnoresOwnCategory ==
  \A x \in SelectableIds :
    violatesScopeOnSelect(byId[x], state) # NoScopeError =>
      \E key \in SelectedKeySet \ {byId[x].category} : state.selected[key] # <<>>

\* the messages of validateState, in the order the statement gives
ValidateMessages ==
  <<MissingCharacter, MissingProduct, MissingEnvironment,
    HandsOnlyCombined, EnvironmentOnlyCombined>>

\* some selected module requires reference kind and the slot is unset
MissingSlot(kind) ==
  /\ \E id \in Range(flattenSelected(state.selected)) : RequiresOf(id)[kind]
  /\ ~Truthy(state.refs[kind])

\* some selected module has this scope and more than one module is selected
CombinedScope(scope) ==
  /\ \E id \in Range(flattenSelected(state.selected)) : ScopeOf(id) = scope
  /\ Len(flattenSelected(state.selected)) > 1

\* C21: validateState returns the missing-reference messages for character,
\* product and environment (each iff a selected module requires the kind and
\* the slot is unset), then the hands-only and the environment-only message
\* (each iff a selected module has the scope and more than one module is
\* selected): each message at most once, in this order, and nothing else.
C21_ValidateStateSequence ==
  cout # NoOutput =>
    /\ MissingCharacter \in Range(cout.errors) <=> MissingSlot("character")
    /\ MissingProduct \in Range(cout.errors) <=> MissingSlot("product")
    /\ MissingEnvironment \in Range(cout.errors) <=> MissingSlot("environment")
    /\ HandsOnlyCombined \in Range(cout.errors) <=> CombinedScope("hands_only")
    /\ EnvironmentOnlyCombined \in Range(cout.errors) <=> CombinedScope("environment_only")
    /\ \E pos \in [1..Len(cout.errors) -> 1..Len(ValidateMessages)] :
         /\ \A i \in 1..Len(cout.errors) : cout.errors[i] = ValidateMessages[pos[i]]
         /\ \A i, j \in 1..Len(cout.errors) : i < j => pos[i] < pos[j]

\* C21's case: validateState has returned a reference error followed by both
\* exclusivity errors
C21_Witness ==
  /\ cout # NoOutput
  /\ Len(cout.errors) >= 3
  /\ cout.errors[1] = MissingCharacter
  /\ HandsOnlyCombined \in Range(cout.errors)
  /\ EnvironmentOnlyCombined \in Range(cout.errors)
  /\ Truthy(state.refs.environment)

\* the constraint strings listed by the library modules among ids
ListedConstraints(ids) ==
  UNION {Range(byId[id].constraints) : id \in Range(ids) \cap LibIds}

\* C22 as stated: dedupedConstraints holds exactly the constraint strings the
\* resolved modules list, each verbatim and once, in ascending order, and is
\* the same for every ordering of the selection.
C22_ConstraintsVerbatimSet ==
  cout.ok =>
    /\ Range(cout.dedupedConstraints) = ListedConstraints(cin.selected_modules)
    /\ \A i, j \in 1..Len(cout.dedupedConstraints) :
         i < j => /\ cout.dedupedConstraints[i] # cout.dedupedConstraints[j]
                  /\ localeCompare(cout.dedupedConstraints[i],
                                   cout.dedupedConstraints[j]) <= 0
    /\ (cprev # <<>> /\ cprev[1].output.ok) =>
         cout.dedupedConstraints = cprev[1].output.dedupedConstraints

\* text stands in prompt from position i on
OccursAt(prompt, text, i) ==
  /\ i + Len(text) - 1 <= Len(prompt)
  /\ SubSeq(prompt, i, i + Len(text) - 1) = text

\* the positions at which the text of library module id stands in prompt
TextPositions(prompt, id) ==
  {i \in 1..Len(prompt) : OccursAt(prompt, Trim(byId[id].prompt_text), i)}

\* the positions at which a section with this title starts in prompt
TitlePositions(prompt, title) ==
  {i \in 1..(Len(prompt) - 1) :
     /\ prompt[i] = title
     /\ prompt[i + 1] = NL
     /\ i > 1 => prompt[i - 1] = NL}

\* the library modules of the selection
SelectedLibIds == Range(cin.selected_modules) \cap LibIds

\* C23: in a compiled prompt the category sections stand in the order
\* facial_pose, anatomy_pose, apparel_textile, product, cinematography; a
\* category has a section exactly when a module of it is selected; the text
\* of every selected module stands in the prompt, a category module's inside
\* the section of its category, and within a category in ascending order of
\* module id.
C23_SectionOrder ==
  cout.ok =>
    /\ \A i \in 1..Len(CATEGORY_ORDER) :
         /\ Cardinality(TitlePositions(cout.prompt, CATEGORY_ORDER[i].sectionTitle)) =
              (IF \E id \in SelectedLibIds : byId[id].category = CATEGORY_ORDER[i].category
                 THEN 1 ELSE 0)
         /\ \A j \in 1..Len(CATEGORY_ORDER) :
              i < j =>
                \A p \in TitlePositions(cout.prompt, CATEGORY_ORDER[i].sectionTitle) :
                  \A q \in TitlePositions(cout.prompt, CATEGORY_ORDER[j].sectionTitle) :
                    p < q
    /\ \A id \in SelectedLibIds :
         /\ TextPositions(cout.prompt, id) # {}
         /\ \A i \in 1..Len(CATEGORY_ORDER) :
              byId[id].category = CATEGORY_ORDER[i].category =>
                \E pos \in TextPositions(cout.prompt, id) :
                  /\ \A p \in TitlePositions(cout.prompt, CATEGORY_ORDER[i].sectionTitle) :
                       p < pos
                  /\ \A j \in 1..Len(CATEGORY_ORDER) :
                       i < j =>
                         \A q \in TitlePositions(cout.prompt,
                                                  CATEGORY_ORDER[j].sectionTitle) :
                           pos < q
    /\ \A a, b \in SelectedLibIds :
         (byId[a].category = byId[b].category /\ localeCompareId(a, b) < 0) =>
           \A p \in TextPositions(cout.prompt, a) :
             \A q \in TextPositions(cout.prompt, b) : p < q

\* C23's case: two modules of one category compiled, selected in descending
\* order of id
C23_Witness ==
  /\ cout.ok
  /\ cin.selected_modules =
       <<"facial_pose_primary_moods", "facial_pose_bizarre_expressions">>
  /\ Cardinality(TitlePositions(cout.prompt, "FACIAL POSES")) = 1
  /\ cprev = <<>>

\* the text deriveMeta reads: prompt_text, or the empty string without one
MetaText == IF cin.hasText THEN cin.prompt_text ELSE <<>>

\* the text holds HANDS ONLY in some letter case
SaysHandsOnly == Range(MetaText) \cap {"HANDS ONLY", "Hands Only"} # {}

\* the text holds 'facial close-up' in some letter case
SaysFacialCloseUp == Range(MetaText) \cap {"facial close-up", "Facial Close-Up"} # {}

\* the text holds the environment marker and neither of the other two
SaysEnvironmentAlone ==
  /\ ENVIRONMENT \in Range(MetaText)
  /\ CHARACTER \notin Range(MetaText)
  /\ PRODUCT \notin Range(MetaText)

\* C24: deriveMeta returns a result for every module, with or without a
\* prompt_text. Its requires flags say whether the text holds each marker in
\* exactly that letter case. Its scope is the first match of: HANDS ONLY in
\* any case gives hands_only; the environment marker without the character
\* and product markers gives environment_only; category facial_pose gives
\* face_only; 'facial close-up' in any case gives face_only; otherwise
\* full_body. The scope is never 'mixed', and the category is the module's.
C24_DeriveMetaFirstMatch ==
  cout # NoOutput =>
    /\ cout.meta.requires =
         [character |-> CHARACTER \in Range(MetaText),
          product |-> PRODUCT \in Range(MetaText),
          environment |-> ENVIRONMENT \in Range(MetaText)]
    /\ cout.meta.category = cin.category
    /\ cout.meta.scope \in {"hands_only", "environment_only", "face_only", "full_body"}
    /\ cout.meta.scope = "hands_only" <=> SaysHandsOnly
    /\ cout.meta.scope = "environment_only" <=> (~SaysHandsOnly /\ SaysEnvironmentAlone)
    /\ cout.meta.scope = "face_only" <=>
         /\ ~SaysHandsOnly
         /\ ~SaysEnvironmentAlone
         /\ cin.category = "facial_pose" \/ SaysFacialCloseUp
    /\ cout.meta.scope = "full_body" <=>
         /\ ~SaysHandsOnly
         /\ ~SaysEnvironmentAlone
         /\ cin.category # "facial_pose"
         /\ ~SaysFacialCloseUp

\* C24's case: a facial_pose module whose text holds Hands Only in mixed case,
\* the environment marker alone, and the character marker in lower case only
C24_Witness ==
  /\ cout # NoOutput
  /\ cin.category = "facial_pose"
  /\ cin.prompt_text = <<"Hands Only", ENVIRONMENT, "character reference image">>
  /\ cout.meta.scope = "hands_only"
  /\ ~cout.meta.requires.character

\* the compiler's output for the snapshot st: its refs, its selection
\* flattened in category order, its variations
CompilerOutputFor(st) ==
  compilePrompt([character_ref |-> st.refs.character,
                 product_ref |-> st.refs.product,
                 environment_ref |-> st.refs.environment,
                 selected_modules |->
                   st.selected.facial_pose \o st.selected.anatomy_pose
                     \o st.selected.apparel_textile \o st.selected.product
                     \o st.selected.cinematography,
                 variation_ids |-> st.variations])

\* C25: a COMPILE that succeeds stores exactly the compiler's output for the
\* current snapshot (prompt, usedModuleIds, dedupedConstraints) together with
\* the fingerprint of that snapshot, leaves errors empty and refs, selected
\* and variations as they were, and a second COMPILE returns an equal state.
C25_CompileStoresCompilerOutput ==
  \E r \in {reduce(state, CompileEvent)} :
    (~r.threw /\ r.next.errors = <<>>) =>
      \E out \in {CompilerOutputFor(state)} :
        /\ out.ok
        /\ r.next.compiled =
             [present |-> TRUE,
              prompt |-> out.prompt,
              usedModuleIds |-> out.usedModuleIds,
              dedupedConstraints |-> out.dedupedConstraints,
              fingerprint |-> fingerprint(state)]
        /\ r.next.refs = state.refs
        /\ r.next.selected = state.selected
        /\ r.next.variations = state.variations
        /\ reduce(r.next, CompileEvent) = Returns(r.next)

\* C25's case: COMPILE succeeds on a snapshot that still holds the compiled
\* prompt of an earlier snapshot, with modules of two categories and a
\* variation
C25_Witness ==
  /\ state.compiled.present
  /\ state.compiled.fingerprint # fingerprint(state)
  /\ state.variations # <<>>
  /\ state.selected.facial_pose # <<>>
  /\ state.selected.product # <<>>
  /\ ~reduce(state, CompileEvent).threw
  /\ reduce(state, CompileEvent).next.errors = <<>>
  /\ reduce(state, CompileEvent).next.compiled.fingerprint = fingerprint(state)

\* the SET_REF and CLEAR_REF events, each with the value its slot gets
RefEvents ==
  {[event |-> [type |-> "SET_REF", slot |-> slot, value |-> value], value |-> value] :
     slot \in RefSlot, value \in RefValues}
    \cup {[event |-> [type |-> "CLEAR_REF", slot |-> slot], value |-> Null] :
            slot \in RefSlot}

\* C26: SET_REF(slot, value) and CLEAR_REF(slot) change only the named
\* reference slot, to value and to null: the other two slots, the five
\* selection lists and variations stay; errors is validateState of the new
\* snapshot, and compiled is null when that list is not empty (and stays as
\* it was when the list is empty).
C26_RefEventsChangeOneSlot ==
  \A e \in RefEvents :
    \E r \in {reduce(state, e.event)} :
      /\ ~r.threw
      /\ r.next.refs[e.event.slot] = e.value
      /\ \A k \in RefSlot \ {e.event.slot} : r.next.refs[k] = state.refs[k]
      /\ r.next.selected = state.selected
      /\ r.next.variations = state.variations
      /\ r.next.errors = validateState(r.next)
      /\ r.next.errors # <<>> => ~r.next.compiled.present
      /\ r.next.errors = <<>> => r.next.compiled = state.compiled

\* C26's case: the character slot was cleared under a selected module that
\* needs it, while another slot is set and a variation is listed
C26_Witness ==
  /\ state.errors = <<MissingCharacter>>
  /\ ~state.compiled.present
  /\ state.refs.character = Null
  /\ Truthy(state.refs.product)
  /\ state.selected.facial_pose # <<>>
  /\ state.variations # <<>>
  /\ reduce(state, [type |-> "SET_REF", slot |-> "character",
                     value |-> RefHandles[1]]).next.errors = <<>>

DeselectEvent(id) == [type |-> "DESELECT_MODULE", moduleId |-> id]

\* C27: DESELECT_MODULE(id) returns a state in which id stands in no
\* selection list and every other selected id stands where it stood; when id
\* was not selected the selection is the input's; refs and variations are
\* the input's in all cases.
C27_DeselectRemovesOnlyId ==
  \A id \in ModuleIds :
    \E r \in {reduce(state, DeselectEvent(id))} :
      /\ ~r.threw
      /\ \A k \in SelectedKeySet :
           /\ id \notin Range(r.next.selected[k])
           /\ r.next.selected[k] = Filter(state.selected[k], Range(state.selected[k]) \ {id})
      /\ id \notin Range(flattenSelected(state.selected)) =>
           r.next.selected = state.selected
      /\ r.next.refs = state.refs
      /\ r.next.variations = state.variations

\* C27's case: modules of two categories are selected, and deselecting one
\* of them leaves the other
C27_Witness ==
  /\ state.selected.facial_pose # <<>>
  /\ state.selected.product # <<>>
  /\ state.variations # <<>>
  /\ \E r \in {reduce(state, DeselectEvent(state.selected.facial_pose[1]))} :
       /\ r.next.selected.facial_pose = <<>>
       /\ r.next.selected.product = state.selected.product

\* C28: CLEAR_CATEGORY(category) returns a state whose list for that
\* category is empty, whose other four selection lists, refs and variations
\* are the input's, and whose errors equal validateState of the returned
\* snapshot.
C28_ClearCategoryEmptiesOneList ==
  \A category \in SelectedKeySet :
    \E r \in {reduce(state, [type |-> "CLEAR_CATEGORY", category |-> category])} :
      /\ ~r.threw
      /\ r.next.selected[category] = <<>>
      /\ \A k \in SelectedKeySet \ {category} : r.next.selected[k] = state.selected[k]
      /\ r.next.refs = state.refs
      /\ r.next.variations = state.variations
      /\ r.next.errors = validateState(r.next)

\* C28's case: a state whose only error comes from its facial_pose module,
\* next to a selected product module; clearing facial_pose removes the error
C28_Witness ==
  /\ state.errors = <<MissingCharacter>>
  /\ state.selected.facial_pose # <<>>
  /\ state.selected.product # <<>>
  /\ \E r \in {reduce(state, [type |-> "CLEAR_CATEGORY", category |-> "facial_pose"])} :
       /\ r.next.errors = <<>>
       /\ r.next.selected.product = state.selected.product

AddEvent(id) == [type |-> "ADD_VARIATION", variationId |-> id]
RemoveEvent(id) == [type |-> "REMOVE_VARIATION", variationId |-> id]

\* C29: variations is a duplicate-free ordered set. No reachable state
\* repeats an id in it. ADD_VARIATION(id) appends id at the end when the
\* list does not hold it and leaves the list as it is otherwise, so adding
\* twice gives what adding once gives. REMOVE_VARIATION(id) leaves no
\* occurrence of id and keeps the others in their order. Neither event
\* changes refs or selected.
C29_VariationsOrderedSet ==
  /\ \A i, j \in 1..Len(state.variations) :
       state.variations[i] = state.variations[j] => i = j
  /\ \A id \in ListedVariationIds :
       \E once \in {reduce(state, AddEvent(id))} :
         /\ ~once.threw
         /\ once.next.variations =
              (IF \E i \in 1..Len(state.variations) : state.variations[i] = id
                 THEN state.variations
                 ELSE state.variations \o <<id>>)
         /\ reduce(once.next, AddEvent(id)).next.variations = once.next.variations
         /\ once.next.refs = state.refs
         /\ once.next.selected = state.selected
  /\ \A id \in ListedVariationIds :
       \E r \in {reduce(state, RemoveEvent(id))} :
         /\ ~r.threw
         /\ \A i \in 1..Len(r.next.variations) : r.next.variations[i] # id
         /\ r.next.variations = Filter(state.variations, Range(state.variations) \ {id})
         /\ r.next.refs = state.refs
         /\ r.next.selected = state.selected

\* C29's case: three variations listed in an order that is not the order of
\* their ids; removing the middle one keeps the other two in place, adding
\* it again puts it at the end
C29_Witness ==
  /\ state.variations = <<"var3", "var1", "var2">>
  /\ Truthy(state.refs.product)
  /\ reduce(state, RemoveEvent("var1")).next.variations = <<"var3", "var2">>
  /\ reduce(reduce(state, RemoveEvent("var1")).next, AddEvent("var1")).next.variations =
       <<"var3", "var2", "var1">>
  /\ reduce(state, AddEvent("var1")).next.variations = state.variations

\* C30: every prompt compilePrompt returns is normalised: it ends with
\* exactly one newline, it does not start with whitespace, and it holds no
\* run of three or more consecutive newlines.
C30_PromptNormalised ==
  cout.ok =>
    /\ Len(cout.prompt) >= 2
    /\ cout.prompt[Len(cout.prompt)] = NL
    /\ cout.prompt[Len(cout.prompt) - 1] # NL
    /\ cout.prompt[1] \notin Whitespace
    /\ \A i \in 1..(Len(cout.prompt) - 2) :
         ~(cout.prompt[i] = NL /\ cout.prompt[i + 1] = NL /\ cout.prompt[i + 2] = NL)

\* C30's case: a prompt for which most blocks are empty (no global rules, one
\* category, no variations) and whose one module text ends with a newline
C30_Witness ==
  /\ cout.ok
  /\ Globals = <<>>
  /\ cin.selected_modules = <<"facial_pose_bizarre_expressions">>
  /\ cin.variation_ids = <<>>
  /\ Len(Join(Blocks(cin, <<byId["facial_pose_bizarre_expressions"]>>), <<NL>>))
       > Len(cout.prompt)

\* C31 as stated: fingerprint returns a string of the same length for every
\* state, eight hexadecimal digits, also when the hash is small.
C31_FingerprintFixedWidth ==
  cout # NoOutput => Len(cout.fingerprint) = 8

\* C32: exclusive scopes are never combined in a state the governor reaches:
\* when a selected module has scope hands_only or environment_only, exactly
\* one module is selected in total, and validateState returns neither
\* exclusivity message.
C32_ExclusiveScopesAlone ==
  /\ \A id \in Range(flattenSelected(state.selected)) :
       /\ id \in LibIds
       /\ ScopeOf(id) \in {"hands_only", "environment_only"} =>
            Len(flattenSelected(state.selected)) = 1
  /\ ~Contains(validateState(state), {HandsOnlyCombined, EnvironmentOnlyCombined})

\* C32's case: a hands-only module is selected and a later SELECT_MODULE of
\* another module was turned away
C32_Witness ==
  /\ flattenSelected(state.selected) = <<"anatomy_pose_hand_gestures">>
  /\ ScopeOf("anatomy_pose_hand_gestures") = "hands_only"
  /\ state.errors = <<HandsOnlySelected>>
  /\ \A x \in SelectableIds :
       Len(flattenSelected(reduce(state, SelectEvent(x)).next.selected)) = 1

\* C33 as stated: in every reachable state where compiled is present,
\* compiled.fingerprint is the fingerprint of that state,
\* compiled.usedModuleIds is the state's selection, and compiled.prompt is what
\* compiling the state's refs, selection and variations gives.
C33_CompiledDescribesSnapshot ==
  state.compiled.present =>
    /\ state.compiled.fingerprint = fingerprint(state)
    /\ state.compiled.usedModuleIds = flattenSelected(state.selected)
    /\ state.compiled.prompt = CompilerOutputFor(state).prompt

\* C34: an empty error list means the snapshot is valid: in every reachable
\* state whose errors is empty validateState returns no error, and COMPILE on
\* such a state returns a state with compiled output and no errors.
C34_EmptyErrorsMeansValid ==
  state.errors = <<>> =>
    /\ validateState(state) = <<>>
    /\ \E r \in {reduce(state, CompileEvent)} :
         /\ ~r.threw
         /\ r.next.compiled.present
         /\ r.next.errors = <<>>

\* C34's case: a state without errors that holds a selection needing two
\* references and has not been compiled yet
C34_Witness ==
  /\ state.errors = <<>>
  /\ ~state.compiled.present
  /\ state.selected.anatomy_pose # <<>>
  /\ state.selected.product # <<>>
  /\ reduce(state, CompileEvent).next.compiled.present
  /\ reduce(state, CompileEvent).next.compiled.usedModuleIds =
       flattenSelected(state.selected)

\* the prompt COMPILE stores for the snapshot st
CompiledPrompt(st) == reduce(st, CompileEvent).next.compiled.prompt

\* two snapshots of one session, both without errors, that agree on refs,
\* on the selection lists and on the sorted variations
SameFingerprintInput ==
  /\ cprev # <<>>
  /\ state.errors = <<>>
  /\ cprev[1].input.errors = <<>>
  /\ SameValue(state, cprev[1].input)

C36_SelectionWellFormed ==
  /\ \A k \in SelectedKeySet :
       \A i \in 1..Len(state.selected[k]) :
         /\ state.selected[k][i] \in LibIds
         /\ byId[state.selected[k][i]].id = state.selected[k][i]
         /\ byId[state.selected[k][i]].category # "global_rules"
         /\ byId[state.selected[k][i]].category = k
  /\ \A j, k \in SelectedKeySet :
       j # k => Range(state.selected[j]) \cap Range(state.selected[k]) = {}
  /\ \A i, j \in 1..Len(flattenSelected(state.selected)) :
       flattenSelected(state.selected)[i] = flattenSelected(state.selected)[j] => i = j

\* C36's case: modules of two categories are selected and a SELECT_MODULE of
\* a global_rules module has just been turned away
C36_Witness ==
  /\ state.errors = <<UnsupportedCategory("global_rules")>>
  /\ state.selected.facial_pose # <<>>
  /\ state.selected.product # <<>>
  /\ "global_rules_core" \in LibIds
  /\ "global_rules_core" \notin Range(flattenSelected(state.selected))

\* C37 as stated: SELECT_MODULE is idempotent: for every reachable state and
\* every library module, selecting the module a second time returns the
\* refs, selected, variations and errors that selecting it once returned.
C37_SelectIdempotent ==
  \A m \in {id \in LibIds : byId[id].id = id} :
    \E once \in {reduce(state, SelectEvent(m))} :
      \E twice \in {reduce(once.next, SelectEvent(m))} :
        /\ ~once.threw
        /\ ~twice.threw
        /\ twice.next.refs = once.next.refs
        /\ twice.next.selected = once.next.selected
        /\ twice.next.variations = once.next.variations
        /\ twice.next.errors = once.next.errors

\* C38 as stated: in the generate flow the result shown belongs to the click
\* that requested it: whenever the screen is 'results', a shootResult is set
\* and it was produced by runShoot from the compiled output of the COMPILE
\* that the click dispatched (the compiled output the state holds since).
C38_ResultBelongsToClick ==
  ui.screen = "results" =>
    /\ ui.shootResult.present
    /\ state.compiled.present
    /\ ui.shootResult.basePrompt = state.compiled.prompt

====
